---- MODULE Spec2Model ----
(***************************************************************************)
(* SQLiter for C++11: the SQLiteHandler (connection) and the map of         *)
(* StatementHandler objects it owns, over the SQLite3 C interface.          *)
(*                                                                         *)
(* The engine is modelled by what its C interface is documented to do with  *)
(* handles: sqlite3_open allocates a connection handle (also when it        *)
(* fails), sqlite3_prepare_v2 yields a statement handle or NULL,            *)
(* sqlite3_finalize releases a statement handle, and sqlite3_close          *)
(* releases a connection handle unless statements are still open on it      *)
(* (SQLITE_BUSY, the handle stays open).                                    *)
(***************************************************************************)
EXTENDS Integers, FiniteSets, Sequences, TLC

\* ---------------------------------------------------------------- bounds
\* Number of connection handles the engine hands out in one behaviour.
MaxDb == 2
\* Number of StatementHandler objects constructed in one behaviour.
MaxStmt == 2
\* Number of rows table t holds at most in one behaviour.
MaxRows == 2
\* The engine type codes getType's conversion is applied to: -MaxCode..MaxCode.
MaxCode == 60
\* Number of rows inserted at most into a store that load can empty again.
MaxTotal == 3

\* ------------------------------------------------------------- constants
NULL == 0
SQLITE_OK == 0
SQLITE_CANTOPEN == 14
SQLITE_ERROR == 1
SQLITE_MISUSE == 21
SQLITE_RANGE == 25
SQLITE_BUSY == 5
SQLITE_NOMEM == 7
SQLITE_ROW == 100
SQLITE_DONE == 101
SQLITE_INTEGER == 1
SQLITE_FLOAT == 2
SQLITE_TEXT == 3
SQLITE_BLOB == 4
SQLITE_NULL == 5

\* Inputs the operations are called with.
Keys == {"k1", "k2"}
Paths == {"a.db3", "b.db3"}
SqlTexts == {"INSERT INTO t VALUES (?, ?)", "SELECT a,b FROM t", "SELEC a"}

\* Statement texts prepared against the store with table t(a TEXT, b REAL).
InsertSql == "INSERT INTO t VALUES (?, ?)"
SelectSql == "SELECT rowid,a,b FROM t"
StmtTexts == {InsertSql, SelectSql}

\* Texts given to rawExec, and the statements each is made of.
RawTexts == {"INSERT INTO t VALUES ('r', 2.5)",
             "SELECT a,b FROM t",
             "INSERT INTO t VALUES ('r', 2.5); SELECT a,b FROM t",
             "INSERT INTO t VALUES ('r', 2.5); SELEC a"}

Script(stmtStr) ==
    CASE stmtStr = "INSERT INTO t VALUES ('r', 2.5)" -> <<"INSERT">>
      [] stmtStr = "SELECT a,b FROM t" -> <<"SELECT">>
      [] stmtStr = "INSERT INTO t VALUES ('r', 2.5); SELECT a,b FROM t" -> <<"INSERT", "SELECT">>
      [] stmtStr = "INSERT INTO t VALUES ('r', 2.5); SELEC a" -> <<"INSERT", "BAD">>

\* The name the engine gives the store opened by sqlite3_open(nullptr, ...):
\* a private transient store that names no file.
Transient == ""

\* Whether the engine compiles a statement text.
Compiles(stmtStr) == stmtStr # "SELEC a"

\* Messages.
NoError == ""
NotAnError == "not an error"
SyntaxError == "near \"SELEC\": syntax error"
CantOpen == "unable to open database file"
OutOfMemory == "out of memory"
DestinationInUse == "destination database is in use"
DatabaseLocked == "database is locked"
FileAlreadyExists == "File Already Exists"
FileDoesNotExist == "File Does Not Exist"
OutOfRange == "std::out_of_range"

VARIABLES
    life,       \* "none": no SQLiteHandler object; "alive"; "destroyed"
    db,         \* SQLiteHandler::db, the held sqlite3 handle or NULL
    stmts,      \* SQLiteHandler::stmts, key -> StatementHandler
    files,      \* the paths at which a file exists
    openDb,     \* engine: the connection handles not yet released
    openStmt,   \* engine: the statement handles not yet finalized
    nextDb,     \* engine: the next connection handle it allocates
    nextStmt,   \* the next StatementHandler object constructed
    lastOp,     \* the last call: operation, arguments, returned value, error
    old,        \* the state on entry to the last call
    disk        \* path -> the rows of table t in the store kept in that file

vars == <<life, db, stmts, files, openDb, openStmt, nextDb, nextStmt, lastOp,
          old, disk>>

Restrict(f, S) == [x \in S |-> f[x]]

EmptyMap == [k \in {} |-> NULL]

\* Files that hold no rows.
NoRows == [p \in Paths |-> <<>>]

\* ---------------------------------------------------------------- engine

\* sqlite3_errmsg(h): the last message recorded on h; for NULL the engine
\* answers "out of memory".
sqlite3_errmsg(conns, h) ==
    IF h = NULL THEN OutOfMemory ELSE conns[h].errmsg

\* sqlite3_finalize over a set of statement handles (NULL is a no-op).
sqlite3_finalize(st, hs) == Restrict(st, DOMAIN st \ hs)

\* sqlite3_close(h): releases h, unless statements prepared on h are not
\* finalized: then it returns SQLITE_BUSY and h stays open.
sqlite3_close(conns, st, h) ==
    IF \E s \in DOMAIN st : st[s].db = h
    THEN conns
    ELSE Restrict(conns, DOMAIN conns \ {h})

\* struct Closesqlite3: the deleter of unique_ptr<sqlite3>; unique_ptr calls
\* it only for a non-null pointer, and the result of sqlite3_close is dropped.
Closesqlite3(conns, st, h) ==
    IF h = NULL THEN conns ELSE sqlite3_close(conns, st, h)

\* inline bool fileExists(location): stat(location) succeeds.
\* Faulty variant: the check never finds the file.
fileExists_never(location) == FALSE

fileExists(location) == location \in files

\* ---------------------------------------------------------------- values

\* A value the engine holds: its dynamic type, and its content (an integer,
\* twice the number for a float, or the bytes of a text or blob).
\* An integer is a sqlite3_int64, kept as two halves of 32 bits: it is
\* hi * 2^32 + i, with i the low 32 bits read as a signed int.
Int64V(high, low) == [t |-> SQLITE_INTEGER, i |-> low, hi |-> high, s |-> ""]
IntV(n) == Int64V(0, n)
FloatV(halves) == [t |-> SQLITE_FLOAT, i |-> halves, hi |-> 0, s |-> ""]
TextV(str) == [t |-> SQLITE_TEXT, i |-> 0, hi |-> 0, s |-> str]
BlobV(str) == [t |-> SQLITE_BLOB, i |-> 0, hi |-> 0, s |-> str]
NullV == [t |-> SQLITE_NULL, i |-> 0, hi |-> 0, s |-> ""]

\* The text the engine renders an integer as; of those with a high half,
\* the ones stored in this module.
RenderInt(v) ==
    CASE v.hi = 0 -> ToString(v.i)
      [] v = Int64V(1, 7) -> "4294967303"
      [] v = Int64V(1, 0 - 7) -> "4294967289"
      [] v = Int64V(0 - 1, 7) -> "-4294967289"

\* The text the engine renders a float as.
RenderFloat(halves) ==
    ToString(halves \div 2) \o (IF halves % 2 = 0 THEN ".0" ELSE ".5")

\* Column a of t is declared TEXT: numbers are stored as their text.
TextAffinity(v) ==
    CASE v.t = SQLITE_INTEGER -> TextV(RenderInt(v))
      [] v.t = SQLITE_FLOAT -> TextV(RenderFloat(v.i))
      [] OTHER -> v

\* Column b of t is declared REAL: integers are stored as floats (the texts
\* bound here do not look like numbers and stay texts).
RealAffinity(v) ==
    IF v.t = SQLITE_INTEGER THEN FloatV(2 * v.i) ELSE v

\* A column declared INTEGER: a float that is a whole number is stored as
\* that integer (the texts bound here do not look like numbers).
IntegerAffinity(v) ==
    IF v.t = SQLITE_FLOAT /\ v.i % 2 = 0 THEN IntV(v.i \div 2) ELSE v

\* What a column declared with type T stores when it is given v; a column
\* declared BLOB stores what it is given.
Stored(T, v) ==
    CASE T = "TEXT" -> TextAffinity(v)
      [] T = "REAL" -> RealAffinity(v)
      [] T = "INTEGER" -> IntegerAffinity(v)
      [] OTHER -> v

\* The zero byte is written "~" in the texts and blobs of this module.
Nul == "~"

\* strlen(str.c_str()): the number of bytes before the first zero byte.
RECURSIVE strlenFrom(_, _)
strlenFrom(str, n) ==
    IF n >= Len(str) THEN n
    ELSE IF SubSeq(str, n + 1, n + 1) = Nul THEN n
    ELSE strlenFrom(str, n + 1)

strlen(str) == strlenFrom(str, 0)

\* The bytes a function that takes a const char * reads from str.c_str().
CString(str) == SubSeq(str, 1, strlen(str))

\* The row rawExec's INSERT text adds: ('r', 2.5).
RawRow == <<TextV("r"), FloatV(5)>>

\* ----------------------------------------------------- engine: statements

\* The types a column is declared with, and the texts that insert into and
\* read the table u_T(c T) of one column declared T.
Types == {"INTEGER", "REAL", "TEXT", "BLOB"}
InsertOne(T) == "INSERT INTO u_" \o T \o " VALUES (?)"
SelectOne(T) == "SELECT c FROM u_" \o T

IsInsert(stmtStr) ==
    stmtStr = InsertSql \/ \E T \in Types : stmtStr = InsertOne(T)

\* The declared types of the columns an INSERT text fills, in order.
Affinity(stmtStr) ==
    IF stmtStr = InsertSql THEN <<"TEXT", "REAL">>
    ELSE <<CHOOSE T \in Types : stmtStr = InsertOne(T)>>

\* sqlite3_bind_parameter_count and sqlite3_column_count of a text.
NParams(stmtStr) == IF IsInsert(stmtStr) THEN Len(Affinity(stmtStr)) ELSE 0

\* The names of the columns a SELECT text yields.
ColumnNames(stmtStr) ==
    CASE stmtStr = SelectSql -> <<"rowid", "a", "b">>
      [] stmtStr = "SELECT a,b FROM t" -> <<"a", "b">>
      [] \E T \in Types : stmtStr = SelectOne(T) -> <<"c">>
      [] OTHER -> <<>>

NColumns(stmtStr) == Len(ColumnNames(stmtStr))

\* The table a SELECT text reads.
TableName(stmtStr) ==
    IF \E T \in Types : stmtStr = SelectOne(T)
    THEN "u_" \o (CHOOSE T \in Types : stmtStr = SelectOne(T))
    ELSE "t"

\* sqlite3_changes(h)
sqlite3_changes(conns, h) == conns[h].changes

\* One statement of a text run by sqlite3_exec on the store of a handle.
ExecOne(c, kind) ==
    IF kind = "INSERT"
    THEN [c EXCEPT !.rows = Append(@, RawRow), !.changes = 1,
                   !.total = @ + 1, !.errmsg = NotAnError]
    ELSE IF kind = "SELECT"
    THEN [c EXCEPT !.errmsg = NotAnError]
    ELSE [c EXCEPT !.errmsg = SyntaxError]

\* sqlite3_exec(h, text, NULL, NULL, NULL): runs the statements in order and
\* stops at the first that fails; what ran before it stays done.
RECURSIVE ExecFrom(_, _, _)
ExecFrom(c, script, n) ==
    IF n > Len(script) THEN [rc |-> SQLITE_OK, c |-> c]
    ELSE IF script[n] = "BAD" THEN [rc |-> SQLITE_ERROR, c |-> ExecOne(c, "BAD")]
    ELSE ExecFrom(ExecOne(c, script[n]), script, n + 1)

sqlite3_exec(conns, h, script) ==
    IF h = NULL THEN [rc |-> SQLITE_MISUSE, conns |-> conns]
    ELSE LET r == ExecFrom(conns[h], script, 1)
         IN [rc |-> r.rc, conns |-> [conns EXCEPT ![h] = r.c]]

\* sqlite3_step(s). A NULL statement is SQLITE_MISUSE. A statement that has
\* run to completion and is stepped again is reset and run again by the
\* engine (auto), or refused with SQLITE_MISUSE by a build without
\* auto-reset. An INSERT runs whole in one step and stores each bound value
\* as its column's declared type has it; a SELECT visits the rows of its
\* table in rowid order.
sqlite3_step(conns, st, s, auto) ==
    IF s \notin DOMAIN st
    THEN [rc |-> SQLITE_MISUSE, conns |-> conns, st |-> st]
    ELSE IF st[s].state = "done" /\ ~auto
    THEN [rc |-> SQLITE_MISUSE, conns |-> conns, st |-> st]
    ELSE LET h == st[s].db
             cur == IF st[s].state = "row" THEN st[s].pos ELSE 0
         IN IF IsInsert(st[s].sql)
            THEN [rc |-> SQLITE_DONE,
                  conns |-> [conns EXCEPT
                      ![h].rows = Append(@, [n \in DOMAIN st[s].bound |->
                          Stored(Affinity(st[s].sql)[n], st[s].bound[n])]),
                      ![h].changes = 1,
                      ![h].total = @ + 1],
                  st |-> [st EXCEPT ![s].state = "done", ![s].pos = 0,
                                    ![s].text = {}]]
            ELSE IF cur + 1 <= Len(conns[h].rows)
            THEN [rc |-> SQLITE_ROW, conns |-> conns,
                  st |-> [st EXCEPT ![s].state = "row", ![s].pos = cur + 1,
                                    ![s].text = {}]]
            ELSE [rc |-> SQLITE_DONE, conns |-> conns,
                  st |-> [st EXCEPT ![s].state = "done", ![s].pos = 0,
                                    ![s].text = {}]]

\* The row a statement stands on: for SelectSql the rowid (rows are never
\* deleted, so it is the position) and the columns a and b, for the other
\* SELECT texts the columns of the table; <<>> when the statement is NULL or
\* stands on no row.
CurrentRow(conns, st, s) ==
    IF s \notin DOMAIN st THEN <<>>
    ELSE IF st[s].state # "row" THEN <<>>
    ELSE IF st[s].sql = SelectSql
    THEN <<IntV(st[s].pos)>> \o conns[st[s].db].rows[st[s].pos]
    ELSE conns[st[s].db].rows[st[s].pos]

\* sqlite3_column_value(s, col), col counted from 0: NULL when the statement
\* is NULL, stands on no row, or has no such column. The statement holds its
\* own copy of the row: a blob that sqlite3_column_text was called on
\* (st[s].text) is a text from then on, until the next step or reset.
sqlite3_column_value(conns, st, s, col) ==
    LET row == CurrentRow(conns, st, s)
    IN IF col + 1 \notin DOMAIN row THEN NullV
       ELSE IF col \in st[s].text /\ row[col + 1].t = SQLITE_BLOB
       THEN TextV(row[col + 1].s)
       ELSE row[col + 1]

\* sqlite3_column_type(s, col)
sqlite3_column_type(conns, st, s, col) ==
    sqlite3_column_value(conns, st, s, col).t

\* sqlite3_column_bytes(s, col): the bytes of the text or blob, of a number's
\* text, 0 for NULL.
sqlite3_column_bytes(conns, st, s, col) ==
    LET v == sqlite3_column_value(conns, st, s, col)
    IN CASE v.t = SQLITE_INTEGER -> Len(RenderInt(v))
         [] v.t = SQLITE_FLOAT -> Len(RenderFloat(v.i))
         [] v.t = SQLITE_NULL -> 0
         [] OTHER -> Len(v.s)

\* sqlite3_column_database_name / _table_name / _origin_name (s, col) for
\* the texts prepared here; "" stands for the NULL pointer the engine
\* returns for a NULL statement or a column the statement does not have.
sqlite3_column_name(st, s, col, what) ==
    IF s \notin DOMAIN st THEN ""
    ELSE IF col < 0 \/ col >= NColumns(st[s].sql) THEN ""
    ELSE CASE what = "databaseName" -> "main"
           [] what = "tableName" -> TableName(st[s].sql)
           [] OTHER -> ColumnNames(st[s].sql)[col + 1]

\* sqlite3_reset(s): back to the start, bindings kept.
sqlite3_reset(st, s) ==
    IF s \notin DOMAIN st THEN st
    ELSE [st EXCEPT ![s].state = "ready", ![s].pos = 0, ![s].text = {}]

\* sqlite3_clear_bindings(s): every parameter NULL.
sqlite3_clear_bindings(st, s) ==
    IF s \notin DOMAIN st THEN st
    ELSE [st EXCEPT ![s].bound = [n \in DOMAIN @ |-> NullV]]

\* sqlite3_bind_*(s, var, value): refused (and nothing bound) for a NULL
\* statement, for a statement that was stepped and not reset since, and for
\* var outside 1..parameter count.
sqlite3_bind(st, s, var, v) ==
    IF s \notin DOMAIN st THEN [rc |-> SQLITE_MISUSE, st |-> st]
    ELSE IF st[s].state # "ready" THEN [rc |-> SQLITE_MISUSE, st |-> st]
    ELSE IF var \notin DOMAIN st[s].bound THEN [rc |-> SQLITE_RANGE, st |-> st]
    ELSE [rc |-> SQLITE_OK, st |-> [st EXCEPT ![s].bound[var] = v]]

\* ------------------------------------------------------ StatementHandler

\* StatementHandler::StatementHandler(db, stmtStr): the result code of
\* sqlite3_prepare_v2 is not looked at; stmt takes whatever handle the
\* engine wrote, NULL when it did not compile (or db is NULL).
StatementHandler(h, stmtStr) ==
    [self |-> nextStmt,
     stmt |-> IF h # NULL /\ Compiles(stmtStr) THEN nextStmt ELSE NULL,
     inputAlias |-> EmptyMap,
     outputAlias |-> EmptyMap]

\* The engine's record of the statement handle prepared by the constructor:
\* every parameter unbound (NULL), not yet stepped.
Prepared(st, h, stmtStr) ==
    IF h # NULL /\ Compiles(stmtStr)
    THEN [s \in DOMAIN st \cup {nextStmt} |->
            IF s = nextStmt
            THEN [db |-> h, sql |-> stmtStr,
                  bound |-> [n \in 1..NParams(stmtStr) |-> NullV],
                  state |-> "ready", pos |-> 0, text |-> {}]
            ELSE st[s]]
    ELSE st

\* The message sqlite3_prepare_v2 leaves on the connection handle.
PrepareMsg(conns, h, stmtStr) ==
    IF h = NULL THEN conns
    ELSE [conns EXCEPT ![h].errmsg =
            IF Compiles(stmtStr) THEN NotAnError ELSE SyntaxError]

\* StatementHandler::~StatementHandler over a set of objects: stmt.reset()
\* finalizes each non-null statement handle.
\* Faulty variant: the destructor leaves the statement handles open.
DestroyHandlers_leak(st, objs) == st

DestroyHandlers(st, objs) ==
    sqlite3_finalize(st, {o.stmt : o \in objs} \ {NULL})

Objects(m) == {m[k] : k \in DOMAIN m}

\* --------------------------------------------------------- SQLiteHandler

\* The record of a call: the operation, its key and text arguments, its
\* index argument and its value (argument or result), what it returned,
\* the message it threw (NoError when it returned) and the engine's code;
\* and the state the call started in.
\* written: what the files hold when the call is over.
CallD(op, key, arg, ret, err, rc, idx, val, written) ==
    /\ lastOp' = [op |-> op, key |-> key, arg |-> arg, ret |-> ret,
                  err |-> err, rc |-> rc, idx |-> idx, val |-> val]
    /\ old' = [db |-> db, stmts |-> stmts, files |-> files,
               openDb |-> openDb, openStmt |-> openStmt, disk |-> disk]
    /\ disk' = written

\* A call that writes to no file.
CallV(op, key, arg, ret, err, rc, idx, val) ==
    CallD(op, key, arg, ret, err, rc, idx, val, disk)

Call(op, key, arg, ret, err, rc) ==
    CallV(op, key, arg, ret, err, rc, 0, NullV)

\* sqlite3 *connection = nullptr;
\* result(sqlite3_open(location, &connection));
\* db.reset(connection);
\* The engine allocates the handle whether or not the open succeeds; a
\* successful open of a path creates the file when it is missing.
\* Faulty variant: db.reset(connection) before result() looks at the code.
OpenAndReset_resetFirst(op, location, rc) ==
    /\ nextDb <= MaxDb
    /\ nextDb' = nextDb + 1
    /\ LET opened == [h \in DOMAIN openDb \cup {nextDb} |->
                        IF h = nextDb
                        THEN [file |-> location,
                              errmsg |-> IF rc = SQLITE_OK THEN NotAnError ELSE CantOpen,
                              rows |-> <<>>, changes |-> 0, total |-> 0]
                        ELSE openDb[h]]
       IN /\ db' = nextDb
          /\ openDb' = Closesqlite3(opened, openStmt, db)
          /\ files' = IF rc = SQLITE_OK /\ location # Transient
                      THEN files \cup {location} ELSE files
          /\ Call(op, "", location, NULL,
                  IF rc = SQLITE_OK THEN NoError ELSE sqlite3_errmsg(openDb, db), rc)
    /\ UNCHANGED <<stmts, openStmt, nextStmt>>

OpenAndReset(op, location, rc) ==
    /\ nextDb <= MaxDb
    /\ nextDb' = nextDb + 1
    /\ LET opened == [h \in DOMAIN openDb \cup {nextDb} |->
                        IF h = nextDb
                        THEN [file |-> location,
                              errmsg |-> IF rc = SQLITE_OK THEN NotAnError ELSE CantOpen,
                              rows |-> <<>>, changes |-> 0, total |-> 0]
                        ELSE openDb[h]]
       IN IF rc = SQLITE_OK
          THEN /\ db' = nextDb
               /\ openDb' = Closesqlite3(opened, openStmt, db)
               /\ files' = IF location = Transient THEN files
                           ELSE files \cup {location}
               /\ Call(op, "", location, NULL, NoError, rc)
          ELSE \* result() throws the message of the handle held so far
               /\ db' = db
               /\ openDb' = opened
               /\ files' = files
               /\ Call(op, "", location, NULL, sqlite3_errmsg(openDb, db), rc)
    /\ UNCHANGED <<stmts, openStmt, nextStmt>>

\* SQLiteHandler() {}
SQLiteHandlerDefault ==
    /\ life = "none"
    /\ life' = "alive"
    /\ Call("SQLiteHandler", "", "", NULL, NoError, SQLITE_OK)
    /\ UNCHANGED <<db, stmts, files, openDb, openStmt, nextDb, nextStmt>>

\* SQLiteHandler(location) { forceOpenDatabase(location); }
\* When the open throws, no object comes to exist.
SQLiteHandlerLocation(location, rc) ==
    /\ life = "none"
    /\ OpenAndReset("SQLiteHandler", location, rc)
    /\ life' = IF rc = SQLITE_OK THEN "alive" ELSE "none"

\* ~SQLiteHandler() { destroyStatements(); db.reset(); }
SQLiteHandlerDtor ==
    /\ life = "alive"
    /\ life' = "destroyed"
    /\ stmts' = EmptyMap
    /\ openStmt' = DestroyHandlers(openStmt, Objects(stmts))
    /\ db' = NULL
    /\ openDb' = Closesqlite3(openDb, openStmt', db)
    /\ Call("~SQLiteHandler", "", "", NULL, NoError, SQLITE_OK)
    /\ UNCHANGED <<files, nextDb, nextStmt>>

Throw(op, key, arg, msg) ==
    /\ Call(op, key, arg, NULL, msg, SQLITE_OK)
    /\ UNCHANGED <<life, db, stmts, files, openDb, openStmt, nextDb, nextStmt>>

\* void createDatabase(location)
createDatabase(location, rc) ==
    /\ life = "alive"
    /\ IF ~fileExists(location)
       THEN OpenAndReset("createDatabase", location, rc) /\ UNCHANGED life
       ELSE rc = SQLITE_OK /\ Throw("createDatabase", "", location, FileAlreadyExists)

\* void createDatabase(): sqlite3_open(nullptr, &connection)
createDatabaseInMemory ==
    /\ life = "alive"
    /\ OpenAndReset("createDatabase()", Transient, SQLITE_OK)
    /\ UNCHANGED life

\* void openDatabase(location)
openDatabase(location, rc) ==
    /\ life = "alive"
    /\ IF fileExists(location)
       THEN OpenAndReset("openDatabase", location, rc) /\ UNCHANGED life
       ELSE rc = SQLITE_OK /\ Throw("openDatabase", "", location, FileDoesNotExist)

\* void closeDatabase() { destroyStatements(); db.reset(); }
\* Faulty variant: closing a connection that holds no handle raises.
closeDatabase_strict ==
    /\ life = "alive"
    /\ IF db = NULL
       THEN Throw("closeDatabase", "", "", sqlite3_errmsg(openDb, db))
       ELSE /\ stmts' = EmptyMap
            /\ openStmt' = DestroyHandlers(openStmt, Objects(stmts))
            /\ db' = NULL
            /\ openDb' = Closesqlite3(openDb, openStmt', db)
            /\ Call("closeDatabase", "", "", NULL, NoError, SQLITE_OK)
            /\ UNCHANGED <<life, files, nextDb, nextStmt>>

closeDatabase ==
    /\ life = "alive"
    /\ stmts' = EmptyMap
    /\ openStmt' = DestroyHandlers(openStmt, Objects(stmts))
    /\ db' = NULL
    /\ openDb' = Closesqlite3(openDb, openStmt', db)
    /\ Call("closeDatabase", "", "", NULL, NoError, SQLITE_OK)
    /\ UNCHANGED <<life, files, nextDb, nextStmt>>

\* void forceOpenDatabase(location)
forceOpenDatabase(location, rc) ==
    /\ life = "alive"
    /\ OpenAndReset("forceOpenDatabase", location, rc)
    /\ UNCHANGED life

\* StatementHandler *prepareStatement(key, stmtStr):
\*   stmts.insert(make_pair(key, unique_ptr(new StatementHandler(db.get(), stmtStr))));
\*   return getStatement(key);
\* std::map::insert leaves the map alone when key is present; the pair it
\* was given is then destroyed, and the new StatementHandler with it.
prepareStatement(key, stmtStr) ==
    /\ life = "alive"
    /\ nextStmt <= MaxStmt
    /\ nextStmt' = nextStmt + 1
    /\ LET new == StatementHandler(db, stmtStr)
           prepared == Prepared(openStmt, db, stmtStr)
       IN IF key \in DOMAIN stmts
          THEN /\ stmts' = stmts
               /\ openStmt' = DestroyHandlers(prepared, {new})
               /\ Call("prepareStatement", key, stmtStr, stmts[key].self,
                       NoError, SQLITE_OK)
          ELSE /\ stmts' = [k \in DOMAIN stmts \cup {key} |->
                              IF k = key THEN new ELSE stmts[k]]
               /\ openStmt' = prepared
               /\ Call("prepareStatement", key, stmtStr, new.self,
                       NoError, SQLITE_OK)
    /\ openDb' = PrepareMsg(openDb, db, stmtStr)
    /\ UNCHANGED <<life, db, files, nextDb>>

\* StatementHandler *getStatement(key) { return stmts.at(key).get(); }
\* Faulty variant: a missing key yields a null pointer instead of raising.
getStatement_noThrow(key) ==
    /\ life = "alive"
    /\ Call("getStatement", key, "",
            IF key \in DOMAIN stmts THEN stmts[key].self ELSE NULL,
            NoError, SQLITE_OK)
    /\ UNCHANGED <<life, db, stmts, files, openDb, openStmt, nextDb, nextStmt>>

getStatement(key) ==
    /\ life = "alive"
    /\ IF key \in DOMAIN stmts
       THEN /\ Call("getStatement", key, "", stmts[key].self, NoError, SQLITE_OK)
            /\ UNCHANGED <<life, db, stmts, files, openDb, openStmt, nextDb, nextStmt>>
       ELSE Throw("getStatement", key, "", OutOfRange)

\* void destroyStatement(key) { stmts.erase(key); }
\* Faulty variant: erases every entry, not only the one under key.
destroyStatement_all(key) ==
    /\ life = "alive"
    /\ stmts' = EmptyMap
    /\ openStmt' = DestroyHandlers(openStmt, Objects(stmts))
    /\ Call("destroyStatement", key, "", NULL, NoError, SQLITE_OK)
    /\ UNCHANGED <<life, db, files, openDb, nextDb, nextStmt>>

destroyStatement(key) ==
    /\ life = "alive"
    /\ stmts' = Restrict(stmts, DOMAIN stmts \ {key})
    /\ openStmt' = DestroyHandlers(openStmt, Objects(Restrict(stmts, DOMAIN stmts \cap {key})))
    /\ Call("destroyStatement", key, "", NULL, NoError, SQLITE_OK)
    /\ UNCHANGED <<life, db, files, openDb, nextDb, nextStmt>>

\* void destroyStatements() { stmts.clear(); }
destroyStatements ==
    /\ life = "alive"
    /\ stmts' = EmptyMap
    /\ openStmt' = DestroyHandlers(openStmt, Objects(stmts))
    /\ Call("destroyStatements", "", "", NULL, NoError, SQLITE_OK)
    /\ UNCHANGED <<life, db, files, openDb, nextDb, nextStmt>>

\* int changes() { return sqlite3_changes(db.get()); }
\* int rawExec(stmtStr) {
\*     result(sqlite3_exec(db.get(), stmtStr.c_str(), NULL, NULL, NULL));
\*     return changes();
\* }
\* result() throws sqlite3_errmsg(db.get()) for every code but SQLITE_OK. The
\* value 0 stands in ret for "nothing returned" when err is a message.
\* Faulty variant: the code of sqlite3_exec is not given to result().
rawExec_unchecked(stmtStr) ==
    /\ life = "alive"
    /\ db # NULL
    /\ Len(openDb[db].rows) < MaxRows
    /\ LET r == sqlite3_exec(openDb, db, Script(stmtStr))
       IN /\ openDb' = r.conns
          /\ Call("rawExec", "", stmtStr, sqlite3_changes(r.conns, db),
                  NoError, r.rc)
    /\ UNCHANGED <<life, db, stmts, files, openStmt, nextDb, nextStmt>>

rawExec(stmtStr) ==
    /\ life = "alive"
    /\ db # NULL => Len(openDb[db].rows) < MaxRows
    /\ LET r == sqlite3_exec(openDb, db, Script(stmtStr))
       IN /\ openDb' = r.conns
          /\ IF r.rc # SQLITE_OK
             THEN Call("rawExec", "", stmtStr, 0, sqlite3_errmsg(r.conns, db), r.rc)
             ELSE Call("rawExec", "", stmtStr, sqlite3_changes(r.conns, db),
                       NoError, r.rc)
    /\ UNCHANGED <<life, db, stmts, files, openStmt, nextDb, nextStmt>>

\* ---------------------------------------- StatementHandler: bind and step

\* The values given to the bind overloads: bind(var, int), bind(var, double),
\* bind(var, string), bind(var, blob, size).
BindValues == {IntV(7), FloatV(3), TextV("x"), BlobV("x")}

\* Positions given to bind and bindNull: parameters are numbered from 1, the
\* INSERT text has two, so 1 is a parameter and 3 is none.
Positions == {1, 3}

\* Would stepping the statement of key add a row to t?
Inserts(key, auto) ==
    /\ stmts[key].stmt # NULL
    /\ IsInsert(openStmt[stmts[key].stmt].sql)
    /\ openStmt[stmts[key].stmt].state = "done" => auto

\* What the bind overload of v's type hands the engine: a string goes as
\* sqlite3_bind_text(.., input.c_str(), strlen(input.c_str()), ..), a blob
\* with the size the caller gave, a number as it is.
BindArg(v) == IF v.t = SQLITE_TEXT THEN TextV(CString(v.s)) ELSE v

\* void bind(var, input) { sqlite3_bind_*(stmt.get(), var, input...); }
\* The engine's code is dropped. arg is the alias the call was made with, ""
\* for the call by position; val is the value the caller gave.
bindAt(key, var, v, arg) ==
    /\ life = "alive"
    /\ key \in DOMAIN stmts
    /\ LET r == sqlite3_bind(openStmt, stmts[key].stmt, var, BindArg(v))
       IN /\ openStmt' = r.st
          /\ CallV("bind", key, arg, 0, NoError, r.rc, var, v)
    /\ UNCHANGED <<life, db, stmts, files, openDb, nextDb, nextStmt>>

bind(key, var, v) == bindAt(key, var, v, "")

\* void bindNull(var) { sqlite3_bind_null(stmt.get(), var); }
bindNullAt(key, var, arg) ==
    /\ life = "alive"
    /\ key \in DOMAIN stmts
    /\ LET r == sqlite3_bind(openStmt, stmts[key].stmt, var, NullV)
       IN /\ openStmt' = r.st
          /\ CallV("bindNull", key, arg, 0, NoError, r.rc, var, NullV)
    /\ UNCHANGED <<life, db, stmts, files, openDb, nextDb, nextStmt>>

bindNull(key, var) == bindNullAt(key, var, "")

\* bool step() { return sqlite3_step(stmt.get()) == SQLITE_ROW; }
\* ret is 1 for true and 0 for false. auto: whether the engine build resets
\* a completed statement by itself when it is stepped again.
\* Faulty variant: the code is compared with SQLITE_DONE.
step_done(key, auto) ==
    /\ life = "alive"
    /\ key \in DOMAIN stmts
    /\ Inserts(key, auto) => Len(openDb[openStmt[stmts[key].stmt].db].rows) < MaxRows
    /\ LET r == sqlite3_step(openDb, openStmt, stmts[key].stmt, auto)
       IN /\ openDb' = r.conns
          /\ openStmt' = r.st
          /\ Call("step", key, "", IF r.rc = SQLITE_DONE THEN 1 ELSE 0, NoError, r.rc)
    /\ UNCHANGED <<life, db, stmts, files, nextDb, nextStmt>>

step(key, auto) ==
    /\ life = "alive"
    /\ key \in DOMAIN stmts
    /\ Inserts(key, auto) => Len(openDb[openStmt[stmts[key].stmt].db].rows) < MaxRows
    /\ LET r == sqlite3_step(openDb, openStmt, stmts[key].stmt, auto)
       IN /\ openDb' = r.conns
          /\ openStmt' = r.st
          /\ Call("step", key, "", IF r.rc = SQLITE_ROW THEN 1 ELSE 0, NoError, r.rc)
    /\ UNCHANGED <<life, db, stmts, files, nextDb, nextStmt>>

\* void reset() { sqlite3_reset(stmt.get()); }
\* Faulty variant: reset() calls sqlite3_clear_bindings.
reset_clear(key) ==
    /\ life = "alive"
    /\ key \in DOMAIN stmts
    /\ openStmt' = sqlite3_clear_bindings(openStmt, stmts[key].stmt)
    /\ Call("reset", key, "", 0, NoError, SQLITE_OK)
    /\ UNCHANGED <<life, db, stmts, files, openDb, nextDb, nextStmt>>

reset(key) ==
    /\ life = "alive"
    /\ key \in DOMAIN stmts
    /\ openStmt' = sqlite3_reset(openStmt, stmts[key].stmt)
    /\ Call("reset", key, "", 0, NoError, SQLITE_OK)
    /\ UNCHANGED <<life, db, stmts, files, openDb, nextDb, nextStmt>>

\* void clear() { sqlite3_clear_bindings(stmt.get()); }
\* Faulty variant: clear() calls sqlite3_reset.
clear_reset(key) ==
    /\ life = "alive"
    /\ key \in DOMAIN stmts
    /\ openStmt' = sqlite3_reset(openStmt, stmts[key].stmt)
    /\ Call("clear", key, "", 0, NoError, SQLITE_OK)
    /\ UNCHANGED <<life, db, stmts, files, openDb, nextDb, nextStmt>>

clear(key) ==
    /\ life = "alive"
    /\ key \in DOMAIN stmts
    /\ openStmt' = sqlite3_clear_bindings(openStmt, stmts[key].stmt)
    /\ Call("clear", key, "", 0, NoError, SQLITE_OK)
    /\ UNCHANGED <<life, db, stmts, files, openDb, nextDb, nextStmt>>

\* ------------------------------------------- StatementHandler: getters

NotString == "Column doesn't contain a string"
NotInt == "Column doesn't contain a int"
NotFloat == "Column doesn't contain a float"
NotBlob == "Column doesn't contain a blob"

\* return (typeNum >= SQLITE_INTEGER && typeNum <= SQLITE_NULL ? typeNum : 0);
\* Faulty variant: the comparison with SQLITE_NULL is left out.
getTypeCode_open(typeNum) ==
    IF typeNum >= SQLITE_INTEGER THEN typeNum ELSE 0

getTypeCode(typeNum) ==
    IF typeNum >= SQLITE_INTEGER /\ typeNum <= SQLITE_NULL THEN typeNum ELSE 0

\* Columns given to the getters, counted from 0: SelectSql has columns 0..2.
Columns == {0, 1, 2, 3}

\* const int getType(column): arg is the alias the call was made with, ""
\* for the call by index.
getTypeAt(key, column, arg) ==
    /\ life = "alive"
    /\ key \in DOMAIN stmts
    /\ CallV("getType", key, arg,
             getTypeCode(sqlite3_column_type(openDb, openStmt, stmts[key].stmt, column)),
             NoError, SQLITE_OK, column, NullV)
    /\ UNCHANGED <<life, db, stmts, files, openDb, openStmt, nextDb, nextStmt>>

getType(key, column) == getTypeAt(key, column, "")

\* const int getSize(column) { return sqlite3_column_bytes(stmt.get(), column); }
getSizeAt(key, column, arg) ==
    /\ life = "alive"
    /\ key \in DOMAIN stmts
    /\ CallV("getSize", key, arg,
             sqlite3_column_bytes(openDb, openStmt, stmts[key].stmt, column),
             NoError, SQLITE_OK, column, NullV)
    /\ UNCHANGED <<life, db, stmts, files, openDb, openStmt, nextDb, nextStmt>>

getSize(key, column) == getSizeAt(key, column, "")

\* getString / getInt / getInt64 / getDouble / getBlob (column):
\*   if (getType(column) == SQLITE_X) return sqlite3_column_x(stmt.get(), column);
\*   throw SQLiteException("Column doesn't contain a x");
\* val is the value returned, NULL when the call throws.
\* getString builds its std::string from the const char * of
\* sqlite3_column_text, which ends at the first zero byte; getInt returns
\* the int of sqlite3_column_int, the low 32 bits of the integer.
Returned(op, v) ==
    CASE op = "getString" -> TextV(CString(v.s))
      [] op = "getInt" -> IntV(v.i)
      [] OTHER -> v

\* Faulty variant: the value is returned whatever its type.
Getter_unchecked(op, required, msg, key, column, arg) ==
    /\ life = "alive"
    /\ key \in DOMAIN stmts
    /\ CallV(op, key, arg, 0, NoError, SQLITE_OK, column,
             sqlite3_column_value(openDb, openStmt, stmts[key].stmt, column))
    /\ UNCHANGED <<life, db, stmts, files, openDb, openStmt, nextDb, nextStmt>>

Getter(op, required, msg, key, column, arg) ==
    /\ life = "alive"
    /\ key \in DOMAIN stmts
    /\ LET v == sqlite3_column_value(openDb, openStmt, stmts[key].stmt, column)
       IN IF getTypeCode(v.t) = required
          THEN CallV(op, key, arg, 0, NoError, SQLITE_OK, column, Returned(op, v))
          ELSE CallV(op, key, arg, 0, msg, SQLITE_OK, column, NullV)
    /\ UNCHANGED <<life, db, stmts, files, openDb, openStmt, nextDb, nextStmt>>

getString(key, column) == Getter("getString", SQLITE_TEXT, NotString, key, column, "")
getInt(key, column) == Getter("getInt", SQLITE_INTEGER, NotInt, key, column, "")
getInt64(key, column) == Getter("getInt64", SQLITE_INTEGER, NotInt, key, column, "")
getDouble(key, column) == Getter("getDouble", SQLITE_FLOAT, NotFloat, key, column, "")
getBlob(key, column) == Getter("getBlob", SQLITE_BLOB, NotBlob, key, column, "")

\* const ValueHandler getColumn(column) { return ValueHandler(stmt.get(), column); }
\* ret is the native statement handle the view holds, idx its column.
\* Faulty variant: a column the current row does not have is refused.
getColumnAt_checked(key, column, arg) ==
    /\ life = "alive"
    /\ key \in DOMAIN stmts
    /\ IF column + 1 \in DOMAIN CurrentRow(openDb, openStmt, stmts[key].stmt)
       THEN CallV("getColumn", key, arg, stmts[key].stmt, NoError, SQLITE_OK,
                  column, NullV)
       ELSE CallV("getColumn", key, arg, NULL, OutOfRange, SQLITE_OK, column, NullV)
    /\ UNCHANGED <<life, db, stmts, files, openDb, openStmt, nextDb, nextStmt>>

getColumnAt(key, column, arg) ==
    /\ life = "alive"
    /\ key \in DOMAIN stmts
    /\ CallV("getColumn", key, arg, stmts[key].stmt, NoError, SQLITE_OK, column, NullV)
    /\ UNCHANGED <<life, db, stmts, files, openDb, openStmt, nextDb, nextStmt>>

getColumn(key, column) == getColumnAt(key, column, "")

\* ValueHandler(inputStmt, inputColNum) : stmt(inputStmt), colNum(inputColNum)
ValueHandler(inputStmt, inputColNum) == [stmt |-> inputStmt, colNum |-> inputColNum]

\* The conversion operators of ValueHandler.
ConversionOps == {"operator int", "operator sqlite3_int64", "operator double",
                  "operator const char *", "operator const void *"}

\* sqlite3_column_int64 / _double of a value: a float loses its fraction,
\* NULL and the texts and blobs of this module (none looks like a number)
\* are 0.
Truncated(halves) ==
    IF halves >= 0 THEN halves \div 2 ELSE 0 - ((0 - halves) \div 2)

AsInt64(v) ==
    CASE v.t = SQLITE_INTEGER -> v
      [] v.t = SQLITE_FLOAT -> IntV(Truncated(v.i))
      [] OTHER -> IntV(0)

AsDouble(v) ==
    CASE v.t = SQLITE_FLOAT -> v
      [] v.t = SQLITE_INTEGER -> FloatV(2 * v.i)
      [] OTHER -> FloatV(0)

\* sqlite3_column_text / _blob of a value: the text of a number, the bytes
\* of a text or blob, the null pointer (NullV) for NULL.
AsText(v) ==
    CASE v.t = SQLITE_INTEGER -> TextV(RenderInt(v))
      [] v.t = SQLITE_FLOAT -> TextV(RenderFloat(v.i))
      [] v.t = SQLITE_NULL -> NullV
      [] OTHER -> TextV(v.s)

\* What a conversion operator returns for the value the engine holds.
Conversion(op, v) ==
    CASE op = "operator int" -> IntV(AsInt64(v).i)
      [] op = "operator sqlite3_int64" -> AsInt64(v)
      [] op = "operator double" -> AsDouble(v)
      [] op = "operator const char *" -> AsText(v)
      [] op = "operator const void *" ->
            IF v.t = SQLITE_NULL \/ (v.t \in {SQLITE_TEXT, SQLITE_BLOB} /\ v.s = "")
            THEN NullV
            ELSE BlobV(AsText(v).s)

\* inline operator T() const { return sqlite3_column_T(stmt, colNum); }
\* on a view whose statement handle is not finalized. ret and idx are the
\* view's stmt and colNum. sqlite3_column_text turns the blob the statement
\* holds in that column into a text.
Convert(op, view) ==
    /\ life = "alive"
    /\ view.stmt \in DOMAIN openStmt
    /\ LET v == sqlite3_column_value(openDb, openStmt, view.stmt, view.colNum)
       IN /\ CallV(op, "", "", view.stmt, NoError, SQLITE_OK, view.colNum,
                   Conversion(op, v))
          /\ openStmt' = IF op = "operator const char *" /\ v.t = SQLITE_BLOB
                         THEN [openStmt EXCEPT ![view.stmt].text = @ \cup {view.colNum}]
                         ELSE openStmt
    /\ UNCHANGED <<life, db, stmts, files, openDb, nextDb, nextStmt>>

\* What constructing a std::string from a null pointer does: undefined; the
\* standard library either throws std::logic_error or the read faults.
LogicError == "basic_string: construction from null is not valid"
Segfault == "SIGSEGV"
NullString == {LogicError, Segfault}

\* const std::string databaseName / tableName / columnName (col)
\*   { return sqlite3_column_*_name(stmt.get(), col); }
\* ub: the outcome taken when the engine returns a null pointer.
Metadata(op, key, col, arg, ub) ==
    /\ life = "alive"
    /\ key \in DOMAIN stmts
    /\ LET name == sqlite3_column_name(openStmt, stmts[key].stmt, col, op)
       IN IF name # ""
          THEN /\ CallV(op, key, arg, 0, NoError, SQLITE_OK, col, TextV(name))
               /\ life' = life
          ELSE /\ CallV(op, key, arg, 0, ub, SQLITE_OK, col, NullV)
               /\ life' = IF ub = Segfault THEN "crashed" ELSE life
    /\ UNCHANGED <<db, stmts, files, openDb, openStmt, nextDb, nextStmt>>

databaseName(key, col, ub) == Metadata("databaseName", key, col, "", ub)
tableName(key, col, ub) == Metadata("tableName", key, col, "", ub)
columnName(key, col, ub) == Metadata("columnName", key, col, "", ub)

\* ------------------------------------------- StatementHandler: aliases

\* Alias names and the indexes they are registered with: 1 is a parameter
\* of InsertSql and a column of SelectSql, 3 is neither.
Aliases == {"x"}
AliasIndexes == {1, 3}

\* std::map::insert(pair): a key that is present keeps its value.
MapInsert(m, k, v) ==
    IF k \in DOMAIN m THEN m
    ELSE [x \in DOMAIN m \cup {k} |-> IF x = k THEN v ELSE m[x]]

\* std::map::at(k): the value of a key that is present; std::out_of_range
\* (found = FALSE) for one that is not.
\* Faulty variant: operator[] semantics, a missing key reads as 0.
at_subscript(m, k) ==
    [found |-> TRUE, value |-> IF k \in DOMAIN m THEN m[k] ELSE 0]

at(m, k) ==
    IF k \in DOMAIN m THEN [found |-> TRUE, value |-> m[k]]
    ELSE [found |-> FALSE, value |-> 0]

\* inputAlias.at(var) and outputAlias.at(column) of the statement of key.
InputIndex(key, var) == at(stmts[key].inputAlias, var)

\* Faulty variant: the getters look the alias up among the input aliases.
OutputIndex_input(key, column) == at(stmts[key].inputAlias, column)

OutputIndex(key, column) == at(stmts[key].outputAlias, column)

\* void setInputAlias(alias, colNum) { inputAlias.insert(pair(alias, colNum)); }
setInputAlias(key, alias, colNum) ==
    /\ life = "alive"
    /\ key \in DOMAIN stmts
    /\ stmts' = [stmts EXCEPT ![key].inputAlias = MapInsert(@, alias, colNum)]
    /\ CallV("setInputAlias", key, alias, 0, NoError, SQLITE_OK, colNum, NullV)
    /\ UNCHANGED <<life, db, files, openDb, openStmt, nextDb, nextStmt>>

\* void setOutputAlias(alias, colNum) { outputAlias.insert(pair(alias, colNum)); }
setOutputAlias(key, alias, colNum) ==
    /\ life = "alive"
    /\ key \in DOMAIN stmts
    /\ stmts' = [stmts EXCEPT ![key].outputAlias = MapInsert(@, alias, colNum)]
    /\ CallV("setOutputAlias", key, alias, 0, NoError, SQLITE_OK, colNum, NullV)
    /\ UNCHANGED <<life, db, files, openDb, openStmt, nextDb, nextStmt>>

\* The call an alias overload makes when at() throws std::out_of_range.
NoSuchAlias(op, key, alias) ==
    life = "alive" /\ Throw(op, key, alias, OutOfRange)

\* void bind(const std::string var, input) { bind(inputAlias.at(var), input); }
bindAlias(key, var, v) ==
    /\ key \in DOMAIN stmts
    /\ IF InputIndex(key, var).found
       THEN bindAt(key, InputIndex(key, var).value, v, var)
       ELSE NoSuchAlias("bind", key, var)

\* void bindNull(const std::string var)
\*   { sqlite3_bind_null(stmt.get(), inputAlias.at(var)); }
bindNullAlias(key, var) ==
    /\ life = "alive"
    /\ key \in DOMAIN stmts
    /\ IF InputIndex(key, var).found
       THEN LET r == sqlite3_bind(openStmt, stmts[key].stmt,
                                  InputIndex(key, var).value, NullV)
            IN /\ openStmt' = r.st
               /\ CallV("bindNull", key, var, 0, NoError, r.rc,
                        InputIndex(key, var).value, NullV)
               /\ UNCHANGED <<life, db, stmts, files, openDb, nextDb, nextStmt>>
       ELSE Throw("bindNull", key, var, OutOfRange)

\* getX(const std::string column) { return getX(outputAlias.at(column)); }
getTypeAlias(key, column) ==
    /\ key \in DOMAIN stmts
    /\ IF OutputIndex(key, column).found
       THEN getTypeAt(key, OutputIndex(key, column).value, column)
       ELSE NoSuchAlias("getType", key, column)

getSizeAlias(key, column) ==
    /\ key \in DOMAIN stmts
    /\ IF OutputIndex(key, column).found
       THEN getSizeAt(key, OutputIndex(key, column).value, column)
       ELSE NoSuchAlias("getSize", key, column)

GetterAlias(op, required, msg, key, column) ==
    /\ key \in DOMAIN stmts
    /\ IF OutputIndex(key, column).found
       THEN Getter(op, required, msg, key, OutputIndex(key, column).value, column)
       ELSE NoSuchAlias(op, key, column)

getStringAlias(key, column) == GetterAlias("getString", SQLITE_TEXT, NotString, key, column)
getIntAlias(key, column) == GetterAlias("getInt", SQLITE_INTEGER, NotInt, key, column)
getInt64Alias(key, column) == GetterAlias("getInt64", SQLITE_INTEGER, NotInt, key, column)
getDoubleAlias(key, column) == GetterAlias("getDouble", SQLITE_FLOAT, NotFloat, key, column)
getBlobAlias(key, column) == GetterAlias("getBlob", SQLITE_BLOB, NotBlob, key, column)

getColumnAlias(key, column) ==
    /\ key \in DOMAIN stmts
    /\ IF OutputIndex(key, column).found
       THEN getColumnAt(key, OutputIndex(key, column).value, column)
       ELSE NoSuchAlias("getColumn", key, column)

\* databaseName / tableName / columnName (const std::string col)
\*   { return xName(outputAlias.at(col)); }
MetadataAlias(op, key, col, ub) ==
    /\ key \in DOMAIN stmts
    /\ IF OutputIndex(key, col).found
       THEN Metadata(op, key, OutputIndex(key, col).value, col, ub)
       ELSE NoSuchAlias(op, key, col)

databaseNameAlias(key, col, ub) == MetadataAlias("databaseName", key, col, ub)
tableNameAlias(key, col, ub) == MetadataAlias("tableName", key, col, ub)
columnNameAlias(key, col, ub) == MetadataAlias("columnName", key, col, ub)

\* ---------------------------------------------------------- specification

Init ==
    /\ life = "none"
    /\ db = NULL
    /\ stmts = EmptyMap
    /\ files \in SUBSET Paths
    /\ openDb = EmptyMap
    /\ openStmt = EmptyMap
    /\ nextDb = 1
    /\ nextStmt = 1
    /\ lastOp = [op |-> "start", key |-> "", arg |-> "", ret |-> NULL,
                 err |-> NoError, rc |-> SQLITE_OK, idx |-> 0, val |-> NullV]
    /\ old = [db |-> NULL, stmts |-> EmptyMap, files |-> files,
              openDb |-> EmptyMap, openStmt |-> EmptyMap, disk |-> NoRows]
    /\ disk = NoRows

Next ==
    \/ SQLiteHandlerDefault
    \/ \E p \in Paths, rc \in {SQLITE_OK, SQLITE_CANTOPEN} : SQLiteHandlerLocation(p, rc)
    \/ SQLiteHandlerDtor
    \/ \E p \in Paths, rc \in {SQLITE_OK, SQLITE_CANTOPEN} : createDatabase(p, rc)
    \/ createDatabaseInMemory
    \/ \E p \in Paths, rc \in {SQLITE_OK, SQLITE_CANTOPEN} : openDatabase(p, rc)
    \/ closeDatabase
    \/ \E p \in Paths, rc \in {SQLITE_OK, SQLITE_CANTOPEN} : forceOpenDatabase(p, rc)
    \/ \E k \in Keys, s \in SqlTexts : prepareStatement(k, s)
    \/ \E k \in Keys : getStatement(k)
    \/ \E k \in Keys : destroyStatement(k)
    \/ destroyStatements

Spec == Init /\ [][Next]_vars

\* ------------------------------------------- SQLiteHandler: load and save

\* What the environment does to the copy: the file opens and the copy runs
\* (SQLITE_OK), sqlite3_open fails (SQLITE_CANTOPEN), or another connection
\* holds the file locked and sqlite3_backup_step gives up (SQLITE_BUSY).
BackupCodes == {SQLITE_OK, SQLITE_CANTOPEN, SQLITE_BUSY}

\* What sqlite3_backup_init does with an absent handle: undefined; the engine
\* reads through the null pointer or, built with its argument checks, hands
\* back no backup object and the call returns.
NullHandle == {Segfault, NoError}

\* sqlite3_open(location, &connection) creates the file when it is missing
\* and the open succeeds.
Opened(location, rc) ==
    IF rc = SQLITE_CANTOPEN THEN files ELSE files \cup {location}

\* A statement of handle h that stands on a row keeps a read transaction
\* open on h; sqlite3_backup_init refuses such a destination.
InUse(st, h) == \E s \in DOMAIN st : st[s].db = h /\ st[s].state = "row"

\* void load(location):
\*   sqlite3_open(location, &connection);
\*   backup = sqlite3_backup_init(db.get(), "main", connection, "main");
\*   if (backup) { sqlite3_backup_step(backup, -1); sqlite3_backup_finish(backup); }
\*   sqlite3_close(connection);
\* No result code is looked at. lastOp.rc is the code of the first engine
\* call that failed. The live handle's own store is not the file at location.
load(location, rc, ub) ==
    /\ life = "alive"
    /\ rc = SQLITE_BUSY => location \in files
    /\ db # NULL => openDb[db].file # location
    /\ files' = Opened(location, rc)
    /\ IF db = NULL
       THEN /\ life' = IF ub = Segfault THEN "crashed" ELSE life
            /\ openDb' = openDb
            /\ CallD("load", "", location, NULL, ub, rc, 0, NullV, disk)
       ELSE /\ ub = NoError
            /\ life' = life
            /\ IF rc = SQLITE_CANTOPEN
               THEN /\ openDb' = openDb
                    /\ CallD("load", "", location, NULL, NoError, rc, 0, NullV, disk)
               ELSE IF InUse(openStmt, db)
               THEN /\ openDb' = [openDb EXCEPT ![db].errmsg = DestinationInUse]
                    /\ CallD("load", "", location, NULL, NoError, SQLITE_ERROR,
                             0, NullV, disk)
               ELSE IF rc = SQLITE_BUSY
               THEN /\ openDb' = [openDb EXCEPT ![db].errmsg = DatabaseLocked]
                    /\ CallD("load", "", location, NULL, NoError, rc, 0, NullV, disk)
               ELSE /\ openDb' = [openDb EXCEPT ![db].rows = disk[location],
                                                ![db].errmsg = NotAnError]
                    /\ CallD("load", "", location, NULL, NoError, rc, 0, NullV, disk)
    /\ UNCHANGED <<db, stmts, openStmt, nextDb, nextStmt>>

\* void save(location): as load, with
\*   backup = sqlite3_backup_init(connection, "main", db.get(), "main");
\* The destination is the connection just opened, which no statement uses.
save(location, rc, ub) ==
    /\ life = "alive"
    /\ rc = SQLITE_BUSY => location \in files
    /\ db # NULL => openDb[db].file # location
    /\ files' = Opened(location, rc)
    /\ IF db = NULL
       THEN /\ life' = IF ub = Segfault THEN "crashed" ELSE life
            /\ CallD("save", "", location, NULL, ub, rc, 0, NullV, disk)
       ELSE /\ ub = NoError
            /\ life' = life
            /\ IF rc # SQLITE_OK
               THEN CallD("save", "", location, NULL, NoError, rc, 0, NullV, disk)
               ELSE CallD("save", "", location, NULL, NoError, rc, 0, NullV,
                          [disk EXCEPT ![location] = openDb[db].rows])
    /\ UNCHANGED <<db, stmts, openDb, openStmt, nextDb, nextStmt>>

\* int changes() { return sqlite3_changes(db.get()); }
\* ub: what sqlite3_changes does with an absent handle (as NullHandle; the
\* build with argument checks returns 0).
\* Faulty variant: returns sqlite3_total_changes.
changes_total(ub) ==
    /\ life = "alive"
    /\ IF db = NULL
       THEN /\ life' = IF ub = Segfault THEN "crashed" ELSE life
            /\ Call("changes", "", "", 0, ub, SQLITE_MISUSE)
       ELSE /\ ub = NoError
            /\ life' = life
            /\ Call("changes", "", "", openDb[db].total, NoError, SQLITE_OK)
    /\ UNCHANGED <<db, stmts, files, openDb, openStmt, nextDb, nextStmt>>

changes(ub) ==
    /\ life = "alive"
    /\ IF db = NULL
       THEN /\ life' = IF ub = Segfault THEN "crashed" ELSE life
            /\ Call("changes", "", "", 0, ub, SQLITE_MISUSE)
       ELSE /\ ub = NoError
            /\ life' = life
            /\ Call("changes", "", "", sqlite3_changes(openDb, db), NoError, SQLITE_OK)
    /\ UNCHANGED <<db, stmts, files, openDb, openStmt, nextDb, nextStmt>>

\* int totalChanges() { return sqlite3_total_changes(db.get()); }
\* ub: as for changes.
totalChanges(ub) ==
    /\ life = "alive"
    /\ IF db = NULL
       THEN /\ life' = IF ub = Segfault THEN "crashed" ELSE life
            /\ Call("totalChanges", "", "", 0, ub, SQLITE_MISUSE)
       ELSE /\ ub = NoError
            /\ life' = life
            /\ Call("totalChanges", "", "", openDb[db].total, NoError, SQLITE_OK)
    /\ UNCHANGED <<db, stmts, files, openDb, openStmt, nextDb, nextStmt>>

\* The code and message a call on a statement (bind, step, reset) leaves on
\* the handle of the statement. openDb[h].errmsg is the message of the last
\* open, prepare, exec or backup call on h; which statement call came after
\* it is not kept, so each of these can be what the handle holds.
StatementErrors ==
    {[code |-> SQLITE_OK, msg |-> NotAnError],
     [code |-> SQLITE_ROW, msg |-> "another row available"],
     [code |-> SQLITE_DONE, msg |-> "no more rows available"],
     [code |-> SQLITE_MISUSE, msg |-> "bad parameter or other API misuse"],
     [code |-> SQLITE_RANGE, msg |-> "column index out of range"]}

\* sqlite3_errcode(h) for the message recorded on h; SQLITE_NOMEM for NULL.
sqlite3_errcode(conns, h) ==
    IF h = NULL THEN SQLITE_NOMEM
    ELSE CASE conns[h].errmsg = NotAnError -> SQLITE_OK
           [] conns[h].errmsg = CantOpen -> SQLITE_CANTOPEN
           [] conns[h].errmsg = DatabaseLocked -> SQLITE_BUSY
           [] OTHER -> SQLITE_ERROR

\* What the handle in db can hold as its last error.
LastErrors ==
    {[code |-> sqlite3_errcode(openDb, db), msg |-> sqlite3_errmsg(openDb, db)]}
    \cup (IF \E s \in DOMAIN openStmt : openStmt[s].db = db
          THEN StatementErrors ELSE {})

\* int errorCode() { return sqlite3_errcode(db.get()); }
errorCode(last) ==
    /\ life = "alive"
    /\ last \in LastErrors
    /\ Call("errorCode", "", "", last.code, NoError, SQLITE_OK)
    /\ UNCHANGED <<life, db, stmts, files, openDb, openStmt, nextDb, nextStmt>>

\* const std::string errorMsg() { return sqlite3_errmsg(db.get()); }
errorMsg(last) ==
    /\ life = "alive"
    /\ last \in LastErrors
    /\ CallV("errorMsg", "", "", 0, NoError, SQLITE_OK, 0, TextV(last.msg))
    /\ UNCHANGED <<life, db, stmts, files, openDb, openStmt, nextDb, nextStmt>>

\* const int columnCount() { return sqlite3_column_count(stmt.get()); }
\* The engine answers 0 for a NULL statement.
columnCount(key) ==
    /\ life = "alive"
    /\ key \in DOMAIN stmts
    /\ Call("columnCount", key, "",
            IF stmts[key].stmt \in DOMAIN openStmt
            THEN NColumns(openStmt[stmts[key].stmt].sql) ELSE 0,
            NoError, SQLITE_OK)
    /\ UNCHANGED <<life, db, stmts, files, openDb, openStmt, nextDb, nextStmt>>

\* The statement-level operations, on the store a program has after
\*   SQLiteHandler db; db.createDatabase();
\*   db.rawExec("CREATE TABLE t(a TEXT, b REAL)");
InitStmt ==
    /\ life = "alive"
    /\ db = 1
    /\ stmts = EmptyMap
    /\ files = {}
    /\ openDb = [h \in {1} |-> [file |-> Transient, errmsg |-> NotAnError,
                                 rows |-> <<>>, changes |-> 0, total |-> 0]]
    /\ openStmt = EmptyMap
    /\ nextDb = 2
    /\ nextStmt = 1
    /\ lastOp = [op |-> "start", key |-> "", arg |-> "", ret |-> NULL,
                 err |-> NoError, rc |-> SQLITE_OK, idx |-> 0, val |-> NullV]
    /\ old = [db |-> 1, stmts |-> EmptyMap, files |-> {},
              openDb |-> openDb, openStmt |-> EmptyMap, disk |-> NoRows]
    /\ disk = NoRows

\* The statements prepared and the values bound in this specification.
StmtPlan == {<<"k1", InsertSql>>, <<"k2", SelectSql>>}
StmtValues == {IntV(7), TextV("x")}

NextStmt ==
    \/ \E p \in StmtPlan : prepareStatement(p[1], p[2])
    \/ \E s \in RawTexts : rawExec(s)
    \/ \E k \in Keys, n \in Positions, v \in StmtValues : bind(k, n, v)
    \/ \E k \in Keys, n \in Positions : bindNull(k, n)
    \/ \E k \in Keys, auto \in BOOLEAN : step(k, auto)
    \/ \E k \in Keys : reset(k)
    \/ \E k \in Keys : clear(k)
    \/ closeDatabase

SpecStmt == InitStmt /\ [][NextStmt]_vars

\* The operations of the example program, with its arguments, in any order:
\* an INSERT statement bound with ("x", 1.5), a single-row insert given to
\* rawExec, changes(), and a SELECT of the two columns read with the typed
\* getters.
SelectAB == "SELECT a,b FROM t"
RawInsert == "INSERT INTO t VALUES ('r', 2.5)"
BoundRow == <<TextV("x"), FloatV(3)>>

NextScenario ==
    \/ prepareStatement("k1", InsertSql)
    \/ prepareStatement("k2", SelectAB)
    \/ \E n \in DOMAIN BoundRow : bind("k1", n, BoundRow[n])
    \/ \E k \in Keys, auto \in BOOLEAN : step(k, auto)
    \/ \E k \in Keys : reset(k)
    \/ rawExec(RawInsert)
    \/ \E ub \in NullHandle : changes(ub)
    \/ getString("k2", 0)
    \/ getDouble("k2", 1)

SpecScenario == InitStmt /\ [][NextScenario]_vars

\* Binding a value and reading it back, on the state a program has after
\*   SQLiteHandler db; db.createDatabase();
\*   db.rawExec("CREATE TABLE u_T(c T)");
\*   db.prepareStatement("k1", "INSERT INTO u_T VALUES (?)");
\*   db.prepareStatement("k2", "SELECT c FROM u_T");
\* for each declared type T.
InitRound ==
    /\ life = "alive"
    /\ db = 1
    /\ stmts = [k \in Keys |->
                  [self |-> IF k = "k1" THEN 1 ELSE 2,
                   stmt |-> IF k = "k1" THEN 1 ELSE 2,
                   inputAlias |-> EmptyMap, outputAlias |-> EmptyMap]]
    /\ files = {}
    /\ openDb = [h \in {1} |-> [file |-> Transient, errmsg |-> NotAnError,
                                 rows |-> <<>>, changes |-> 0, total |-> 0]]
    /\ \E T \in Types :
          openStmt = [s \in {1, 2} |->
                        IF s = 1
                        THEN [db |-> 1, sql |-> InsertOne(T), bound |-> <<NullV>>,
                              state |-> "ready", pos |-> 0, text |-> {}]
                        ELSE [db |-> 1, sql |-> SelectOne(T), bound |-> <<>>,
                              state |-> "ready", pos |-> 0, text |-> {}]]
    /\ nextDb = 2
    /\ nextStmt = 3
    /\ lastOp = [op |-> "start", key |-> "", arg |-> "", ret |-> NULL,
                 err |-> NoError, rc |-> SQLITE_OK, idx |-> 0, val |-> NullV]
    /\ old = [db |-> 1, stmts |-> stmts, files |-> {},
              openDb |-> openDb, openStmt |-> openStmt, disk |-> NoRows]
    /\ disk = NoRows

\* The dynamic type of a value of declared type T, and the getter for T.
TypeCode(T) ==
    CASE T = "INTEGER" -> SQLITE_INTEGER
      [] T = "REAL" -> SQLITE_FLOAT
      [] T = "TEXT" -> SQLITE_TEXT
      [] T = "BLOB" -> SQLITE_BLOB

GetterFor(T) ==
    CASE T = "INTEGER" -> "getInt"
      [] T = "REAL" -> "getDouble"
      [] T = "TEXT" -> "getString"
      [] T = "BLOB" -> "getBlob"

\* The values bound: numbers, the empty text and blob, and a text and a blob
\* with a zero byte in the middle.
RoundValues == {IntV(7), FloatV(3), TextV("x"), TextV(""), TextV("x~y"),
                BlobV("x~y"), BlobV("")}

\* The declared type of the column the INSERT statement of key fills.
ColumnType(key) == Affinity(openStmt[stmts[key].stmt].sql)[1]

\* A value is bound to a column of its own type; the integer also to the
\* columns of the other types.
NextRound ==
    \/ \E v \in RoundValues :
          /\ v.t = TypeCode(ColumnType("k1")) \/ v.t = SQLITE_INTEGER
          /\ bind("k1", 1, v)
    \/ \E k \in Keys, auto \in BOOLEAN : step(k, auto)
    \/ \E k \in Keys : reset(k)
    \/ getSize("k2", 0)
    \/ getString("k2", 0)
    \/ getInt("k2", 0)
    \/ getInt64("k2", 0)
    \/ getDouble("k2", 0)
    \/ getBlob("k2", 0)

SpecRound == InitRound /\ [][NextRound]_vars

\* The integer getters, on the state a program has after
\*   SQLiteHandler db; db.createDatabase();
\*   db.rawExec("CREATE TABLE u_INTEGER(c INTEGER)");
\*   db.rawExec("INSERT INTO u_INTEGER VALUES (n)");
\*   db.prepareStatement("k2", "SELECT c FROM u_INTEGER");
\* for integers n inside and outside the range of int.
StoredInts == {IntV(0), IntV(7), IntV(0 - 7), Int64V(1, 7), Int64V(1, 0 - 7),
               Int64V(0 - 1, 7)}

InitInt ==
    /\ life = "alive"
    /\ db = 1
    /\ stmts = [k \in {"k2"} |-> [self |-> 1, stmt |-> 1,
                                  inputAlias |-> EmptyMap, outputAlias |-> EmptyMap]]
    /\ files = {}
    /\ \E n \in StoredInts :
          openDb = [h \in {1} |-> [file |-> Transient, errmsg |-> NotAnError,
                                   rows |-> << <<n>> >>, changes |-> 1, total |-> 1]]
    /\ openStmt = [s \in {1} |-> [db |-> 1, sql |-> SelectOne("INTEGER"),
                                  bound |-> <<>>, state |-> "ready", pos |-> 0,
                                  text |-> {}]]
    /\ nextDb = 2
    /\ nextStmt = 2
    /\ lastOp = [op |-> "start", key |-> "", arg |-> "", ret |-> NULL,
                 err |-> NoError, rc |-> SQLITE_OK, idx |-> 0, val |-> NullV]
    /\ old = [db |-> 1, stmts |-> stmts, files |-> {},
              openDb |-> openDb, openStmt |-> openStmt, disk |-> NoRows]
    /\ disk = NoRows

NextInt ==
    \/ \E auto \in BOOLEAN : step("k2", auto)
    \/ reset("k2")
    \/ \E c \in {0, 1} : getType("k2", c)
    \/ \E c \in {0, 1} : getInt("k2", c)
    \/ \E c \in {0, 1} : getInt64("k2", c)

SpecInt == InitInt /\ [][NextInt]_vars

\* load and save, on the same store, with a SELECT statement that can stand
\* on a row while the copy is asked for. A load can take rows away, so the
\* number of inserts is capped by the total the handle has counted.
NextBackup ==
    \/ \E s \in RawTexts :
          /\ db # NULL => openDb[db].total < MaxTotal
          /\ rawExec(s)
    \/ prepareStatement("k2", SelectSql)
    \/ \E auto \in BOOLEAN : step("k2", auto)
    \/ reset("k2")
    \/ \E p \in Paths, rc \in BackupCodes, ub \in NullHandle : load(p, rc, ub)
    \/ \E p \in Paths, rc \in BackupCodes, ub \in NullHandle : save(p, rc, ub)
    \/ closeDatabase

SpecBackup == InitStmt /\ [][NextBackup]_vars

\* The getters and the alias overloads, on the state a program has after
\*   SQLiteHandler db; db.createDatabase();
\*   db.rawExec("CREATE TABLE t(a TEXT, b REAL)");
\*   StatementHandler *k1 = db.prepareStatement("k1", InsertSql);
\*   k1->bind(1, "x"); k1->bind(2, 1.5); k1->step(); k1->reset();
\*   k1->bind(1, blob, 1); k1->bindNull(2); k1->step(); k1->reset();
\*   db.prepareStatement("k2", SelectSql);
\* so that the columns of the two rows of t hold an INTEGER (rowid), a TEXT,
\* a FLOAT, a BLOB and a NULL.
InitGet ==
    /\ life = "alive"
    /\ db = 1
    /\ stmts = [k \in Keys |->
                  [self |-> IF k = "k1" THEN 1 ELSE 2,
                   stmt |-> IF k = "k1" THEN 1 ELSE 2,
                   inputAlias |-> EmptyMap, outputAlias |-> EmptyMap]]
    /\ files = {}
    /\ openDb = [h \in {1} |->
                   [file |-> Transient, errmsg |-> NotAnError,
                    rows |-> << <<TextV("x"), FloatV(3)>>, <<BlobV("x"), NullV>> >>,
                    changes |-> 1, total |-> 2]]
    /\ openStmt = [s \in {1, 2} |->
                     IF s = 1
                     THEN [db |-> 1, sql |-> InsertSql,
                           bound |-> <<BlobV("x"), NullV>>,
                           state |-> "ready", pos |-> 0, text |-> {}]
                     ELSE [db |-> 1, sql |-> SelectSql, bound |-> <<>>,
                           state |-> "ready", pos |-> 0, text |-> {}]]
    /\ nextDb = 2
    /\ nextStmt = 3
    /\ lastOp = [op |-> "start", key |-> "", arg |-> "", ret |-> NULL,
                 err |-> NoError, rc |-> SQLITE_OK, idx |-> 0, val |-> NullV]
    /\ old = [db |-> 1, stmts |-> stmts, files |-> {},
              openDb |-> openDb, openStmt |-> openStmt, disk |-> NoRows]
    /\ disk = NoRows

NextGet ==
    \/ \E k \in Keys, auto \in BOOLEAN : step(k, auto)
    \/ \E k \in Keys : reset(k)
    \/ \E k \in Keys, c \in Columns : getType(k, c)
    \/ \E k \in Keys, c \in Columns : getSize(k, c)
    \/ \E k \in Keys, c \in Columns : getString(k, c)
    \/ \E k \in Keys, c \in Columns : getInt(k, c)
    \/ \E k \in Keys, c \in Columns : getInt64(k, c)
    \/ \E k \in Keys, c \in Columns : getDouble(k, c)
    \/ \E k \in Keys, c \in Columns : getBlob(k, c)
    \/ \E k \in Keys, c \in Columns : getColumn(k, c)
    \/ \E k \in Keys, c \in Columns, ub \in NullString : databaseName(k, c, ub)
    \/ \E k \in Keys, c \in Columns, ub \in NullString : tableName(k, c, ub)
    \/ \E k \in Keys, c \in Columns, ub \in NullString : columnName(k, c, ub)

SpecGet == InitGet /\ [][NextGet]_vars

\* The operations that only ask, of the statements and of the connection,
\* from the same state; the statement is stepped and given an alias between
\* them, and the connection is closed, so that they are asked in every state.
QueryOps == {"getType", "getSize", "getString", "getInt", "getInt64", "getDouble",
             "getBlob", "columnCount", "databaseName", "tableName", "columnName",
             "getStatement", "changes", "totalChanges", "errorCode", "errorMsg"}

NextQuery ==
    \/ NextGet
    \/ \E a \in Aliases, i \in AliasIndexes : setOutputAlias("k2", a, i)
    \/ closeDatabase
    \/ \E k \in Keys : columnCount(k)
    \/ \E k \in Keys : getStatement(k)
    \/ \E ub \in NullHandle : changes(ub)
    \/ \E ub \in NullHandle : totalChanges(ub)
    \/ \E last \in LastErrors : errorCode(last)
    \/ \E last \in LastErrors : errorMsg(last)

SpecQuery == InitGet /\ [][NextQuery]_vars

\* getColumn and the conversions of the views it returns, from the same
\* state. No statement is destroyed here, so the view of a column of a
\* statement is the same whenever getColumn returned it, and a conversion is
\* made on a view returned at any earlier moment.
NextView ==
    \/ \E auto \in BOOLEAN : step("k2", auto)
    \/ reset("k2")
    \/ \E k \in Keys, c \in Columns : getColumn(k, c)
    \/ \E k \in Keys, c \in Columns : getType(k, c)
    \/ \E op \in ConversionOps, k \in Keys, c \in Columns :
          Convert(op, ValueHandler(stmts[k].stmt, c))

SpecView == InitGet /\ [][NextView]_vars

\* The alias overloads, from the same state. Input aliases are registered
\* on the INSERT statement and output aliases on the SELECT statement, so
\* that each alias overload is called with and without its alias known.
NextAlias ==
    \/ \E k \in Keys, auto \in BOOLEAN : step(k, auto)
    \/ \E k \in Keys : reset(k)
    \/ \E a \in Aliases, i \in AliasIndexes : setInputAlias("k1", a, i)
    \/ \E a \in Aliases, i \in AliasIndexes : setOutputAlias("k2", a, i)
    \/ \E k \in Keys, a \in Aliases, v \in BindValues : bindAlias(k, a, v)
    \/ \E k \in Keys, a \in Aliases : bindNullAlias(k, a)
    \/ \E k \in Keys, a \in Aliases : getTypeAlias(k, a)
    \/ \E k \in Keys, a \in Aliases : getSizeAlias(k, a)
    \/ \E k \in Keys, a \in Aliases : getStringAlias(k, a)
    \/ \E k \in Keys, a \in Aliases : getIntAlias(k, a)
    \/ \E k \in Keys, a \in Aliases : getInt64Alias(k, a)
    \/ \E k \in Keys, a \in Aliases : getDoubleAlias(k, a)
    \/ \E k \in Keys, a \in Aliases : getBlobAlias(k, a)
    \/ \E k \in Keys, a \in Aliases : getColumnAlias(k, a)
    \/ \E k \in Keys, a \in Aliases, ub \in NullString : databaseNameAlias(k, a, ub)
    \/ \E k \in Keys, a \in Aliases, ub \in NullString : tableNameAlias(k, a, ub)
    \/ \E k \in Keys, a \in Aliases, ub \in NullString : columnNameAlias(k, a, ub)

SpecAlias == InitGet /\ [][NextAlias]_vars

\* The alias maps over the life of the statements: statements are prepared,
\* given aliases, destroyed and prepared again under the same key, and an
\* alias overload of each direction is called.
NextMaps ==
    \/ \E p \in StmtPlan : prepareStatement(p[1], p[2])
    \/ \E k \in Keys : destroyStatement(k)
    \/ \E k \in Keys, a \in Aliases, i \in AliasIndexes : setInputAlias(k, a, i)
    \/ \E k \in Keys, a \in Aliases, i \in AliasIndexes : setOutputAlias(k, a, i)
    \/ \E k \in Keys, a \in Aliases : bindNullAlias(k, a)
    \/ \E k \in Keys, a \in Aliases : getTypeAlias(k, a)

SpecMaps == InitStmt /\ [][NextMaps]_vars

\* The conversion in getType, applied to every type code typeNum (held in
\* lastOp.idx) that sqlite3_column_type could hand back.
InitCode ==
    /\ life = "alive"
    /\ db = NULL
    /\ stmts = EmptyMap
    /\ files = {}
    /\ openDb = EmptyMap
    /\ openStmt = EmptyMap
    /\ nextDb = 1
    /\ nextStmt = 1
    /\ \E typeNum \in (0 - MaxCode)..MaxCode :
          lastOp = [op |-> "start", key |-> "", arg |-> "", ret |-> NULL,
                    err |-> NoError, rc |-> SQLITE_OK, idx |-> typeNum,
                    val |-> NullV]
    /\ old = [db |-> NULL, stmts |-> EmptyMap, files |-> {},
              openDb |-> EmptyMap, openStmt |-> EmptyMap, disk |-> NoRows]
    /\ disk = NoRows

getTypeOfCode ==
    /\ lastOp.op = "start"
    /\ lastOp' = [lastOp EXCEPT !.op = "getType", !.ret = getTypeCode(lastOp.idx)]
    /\ UNCHANGED <<life, db, stmts, files, openDb, openStmt, nextDb, nextStmt,
                   old, disk>>

NextCode == getTypeOfCode

SpecCode == InitCode /\ [][NextCode]_vars

\* ------------------------------------------------------------------ types

OpenOps == {"createDatabase", "createDatabase()", "openDatabase",
            "forceOpenDatabase", "SQLiteHandler"}

TypeOK ==
    /\ life \in {"none", "alive", "destroyed", "crashed"}
    /\ db \in {NULL} \cup DOMAIN openDb
    /\ DOMAIN stmts \subseteq Keys
    /\ files \subseteq Paths
    /\ \A s \in DOMAIN openStmt : openStmt[s].db \in DOMAIN openDb

\* The native handles of the StatementHandlers of a map.
Natives(m) == {m[k].stmt : k \in DOMAIN m} \ {NULL}

\* ----------------------------------------------------------------- claims

\* C1: prepareStatement(key, sql2) on an open connection whose mapping holds
\* under key a statement compiled from sql1 replaces that entry: the old
\* statement is destroyed, the mapping holds under key the statement compiled
\* from sql2, and the returned value is that statement.
C1_PrepareReplacesEntry ==
    ( /\ lastOp.op = "prepareStatement"
      /\ old.db # NULL
      /\ lastOp.key \in DOMAIN old.stmts
      /\ old.stmts[lastOp.key].stmt # NULL
      /\ Compiles(lastOp.arg) )
    => /\ old.stmts[lastOp.key].stmt \notin DOMAIN openStmt
       /\ lastOp.key \in DOMAIN stmts
       /\ stmts[lastOp.key].self # old.stmts[lastOp.key].self
       /\ stmts[lastOp.key].stmt \in DOMAIN openStmt
       /\ openStmt[stmts[lastOp.key].stmt].sql = lastOp.arg
       /\ lastOp.ret = stmts[lastOp.key].self

\* C2: when the engine fails to compile the text, prepareStatement raises a
\* prepare error carrying the engine's message and leaves the mapping as it
\* was; no StatementHandler with a NULL native handle is ever in the mapping.
C2_FailedPrepareRaises ==
    ( /\ lastOp.op = "prepareStatement"
      /\ old.db # NULL
      /\ ~Compiles(lastOp.arg) )
    => /\ lastOp.err = sqlite3_errmsg(openDb, old.db)
       /\ lastOp.err # NoError
       /\ stmts = old.stmts
       /\ \A k \in DOMAIN stmts : stmts[k].stmt # NULL \/ k \in DOMAIN old.stmts

\* C3: a successful open/create/forceOpen on a connection that holds a handle
\* and owns statements destroys every owned statement before it replaces the
\* handle: afterwards the mapping is empty (and the statements' native
\* handles are finalized, so the replaced handle is released).
C3_OpenDestroysStatements ==
    ( /\ lastOp.op \in OpenOps
      /\ lastOp.err = NoError
      /\ old.db # NULL
      /\ DOMAIN old.stmts # {} )
    => /\ DOMAIN stmts = {}
       /\ Natives(old.stmts) \cap DOMAIN openStmt = {}
       /\ old.db \notin DOMAIN openDb

\* C4: every StatementHandler in the mapping was prepared against the handle
\* the connection currently holds: never against a replaced or released
\* handle, never against an absent one.
C4_StatementsOnCurrentHandle ==
    \A k \in DOMAIN stmts :
        /\ db # NULL
        /\ stmts[k].stmt \in DOMAIN openStmt
        /\ openStmt[stmts[k].stmt].db = db

\* C5: the destructor and closeDatabase() finalize every owned statement
\* before the connection handle is released: afterwards the mapping is
\* empty, no statement handle is open on the handle that was held, the owned
\* statements' handles are finalized, and the handle that was held is
\* released.
C5_CloseReleasesStatementsFirst ==
    lastOp.op \in {"closeDatabase", "~SQLiteHandler"}
    => /\ DOMAIN stmts = {}
       /\ db = NULL
       /\ Natives(old.stmts) \cap DOMAIN openStmt = {}
       /\ \A s \in DOMAIN openStmt : openStmt[s].db # old.db
       /\ old.db \notin DOMAIN openDb

C5_Witness ==
    /\ lastOp.op = "~SQLiteHandler"
    /\ old.db # NULL
    /\ \E k \in DOMAIN old.stmts :
          /\ old.stmts[k].stmt \in DOMAIN old.openStmt
          /\ old.openStmt[old.stmts[k].stmt].db = old.db

\* C6: closeDatabase() raises nothing and leaves the handle absent and the
\* mapping empty from any state; called on a connection that holds no handle
\* and owns no statement (closed before, or never opened) it changes nothing.
C6_CloseIdempotent ==
    lastOp.op = "closeDatabase"
    => /\ lastOp.err = NoError
       /\ db = NULL
       /\ DOMAIN stmts = {}
       /\ (old.db = NULL /\ DOMAIN old.stmts = {})
            => /\ openDb = old.openDb
               /\ openStmt = old.openStmt
               /\ files = old.files

C6_Witness ==
    /\ lastOp.op = "closeDatabase"
    /\ lastOp.err = NoError
    /\ old.db = NULL
    /\ DOMAIN old.stmts = {}
    /\ nextDb > 1

\* C7: createDatabase(path) raises already-exists exactly when a file exists
\* at path; openDatabase(path) raises does-not-exist exactly when none does;
\* forceOpenDatabase(path) and the constructor taking a path raise neither.
\* Whenever the existence check passes and the engine opens the path, the
\* connection holds a new handle on path and a file exists at path (so a
\* second createDatabase(path) raises already-exists).
C7_ExistenceChecks ==
    /\ lastOp.op = "createDatabase"
         => (lastOp.err = FileAlreadyExists <=> lastOp.arg \in old.files)
    /\ lastOp.op = "openDatabase"
         => (lastOp.err = FileDoesNotExist <=> lastOp.arg \notin old.files)
    /\ lastOp.op \in {"forceOpenDatabase", "SQLiteHandler"}
         => lastOp.err \notin {FileAlreadyExists, FileDoesNotExist}
    /\ ( /\ lastOp.op \in {"createDatabase", "openDatabase", "forceOpenDatabase"}
         /\ lastOp.arg \in Paths
         /\ lastOp.err \notin {FileAlreadyExists, FileDoesNotExist}
         /\ lastOp.rc = SQLITE_OK )
       => /\ lastOp.err = NoError
          /\ db \in DOMAIN openDb \ DOMAIN old.openDb
          /\ openDb[db].file = lastOp.arg
          /\ lastOp.arg \in files

C7_Witness ==
    /\ lastOp.op = "createDatabase"
    /\ lastOp.err = FileAlreadyExists
    /\ db # NULL
    /\ openDb[db].file = lastOp.arg
    /\ lastOp.arg \notin {openDb[h].file : h \in DOMAIN old.openDb \ {db}}

\* C8: a failed open/create/forceOpen (already-exists, does-not-exist or the
\* engine refusing the open) leaves the connection as it was: the handle it
\* held, its mapping and its statements' native handles are unchanged.
C8_FailedOpenLeavesConnection ==
    (lastOp.op \in OpenOps /\ lastOp.err # NoError)
    => /\ db = old.db
       /\ stmts = old.stmts
       /\ openStmt = old.openStmt
       /\ \A h \in DOMAIN old.openDb : h \in DOMAIN openDb /\ openDb[h] = old.openDb[h]
       /\ files = old.files

C8_Witness ==
    /\ lastOp.op = "forceOpenDatabase"
    /\ lastOp.rc = SQLITE_CANTOPEN
    /\ lastOp.err # NoError
    /\ old.db # NULL
    /\ DOMAIN old.stmts # {}

\* C9: getStatement(key) returns the StatementHandler stored under key when
\* key is present and raises key-not-found (std::out_of_range) when it is
\* absent; either way nothing changes.
C9_GetStatement ==
    lastOp.op = "getStatement"
    => /\ stmts = old.stmts
       /\ db = old.db
       /\ openDb = old.openDb
       /\ openStmt = old.openStmt
       /\ IF lastOp.key \in DOMAIN old.stmts
          THEN lastOp.err = NoError /\ lastOp.ret = old.stmts[lastOp.key].self
          ELSE lastOp.err = OutOfRange /\ lastOp.ret = NULL

C9_Witness ==
    /\ lastOp.op = "getStatement"
    /\ lastOp.err = OutOfRange
    /\ DOMAIN stmts # {}
    /\ nextStmt > Cardinality(DOMAIN stmts) + 1

\* C10: destroyStatement(key) removes exactly the entry under key and
\* finalizes its native handle, leaving every other entry, every other
\* statement handle and the connection handle as they were (nothing changes
\* and nothing is raised when key is absent); destroyStatements() removes
\* every entry and finalizes their handles and leaves the connection handle
\* open.
C10_DestroyStatementFrame ==
    /\ lastOp.op = "destroyStatement"
         => /\ lastOp.err = NoError
            /\ stmts = Restrict(old.stmts, DOMAIN old.stmts \ {lastOp.key})
            /\ openStmt = Restrict(old.openStmt, DOMAIN old.openStmt \
                   (IF lastOp.key \in DOMAIN old.stmts
                    THEN {old.stmts[lastOp.key].stmt} ELSE {}))
            /\ db = old.db
            /\ openDb = old.openDb
    /\ lastOp.op = "destroyStatements"
         => /\ lastOp.err = NoError
            /\ DOMAIN stmts = {}
            /\ openStmt = Restrict(old.openStmt, DOMAIN old.openStmt \ Natives(old.stmts))
            /\ db = old.db
            /\ openDb = old.openDb

C10_Witness ==
    /\ lastOp.op = "destroyStatement"
    /\ lastOp.key \in DOMAIN old.stmts
    /\ old.stmts[lastOp.key].stmt \in DOMAIN old.openStmt
    /\ DOMAIN stmts # {}
    /\ db # NULL


\* C11: a rawExec that succeeds returns the number of rows changed by the
\* last statement of its text: 1 when that statement is the INSERT, 0 when
\* it is a SELECT, whatever ran before it on the handle.
C11_RawExecReturnsLastCount ==
    (lastOp.op = "rawExec" /\ lastOp.err = NoError)
    => LET script == Script(lastOp.arg)
       IN lastOp.ret = (IF script[Len(script)] = "INSERT" THEN 1 ELSE 0)

\* C12: rawExec raises the engine's message, and returns no count, exactly
\* when the engine reports a code other than SQLITE_OK for the text; what
\* it returns when the engine reports SQLITE_OK is sqlite3_changes.
C12_RawExecRaisesOnFailure ==
    lastOp.op = "rawExec"
    => IF lastOp.rc = SQLITE_OK
       THEN /\ lastOp.err = NoError
            /\ lastOp.ret = sqlite3_changes(openDb, db)
       ELSE /\ lastOp.err # NoError
            /\ lastOp.err = sqlite3_errmsg(openDb, old.db)
            /\ lastOp.ret = 0

\* A text whose second statement fails after its first one added a row.
C12_Witness ==
    /\ lastOp.op = "rawExec"
    /\ lastOp.rc = SQLITE_ERROR
    /\ lastOp.err = SyntaxError
    /\ Len(openDb[db].rows) = Len(old.openDb[db].rows) + 1

\* C13: with no handle held, prepareStatement and rawExec raise, and
\* prepareStatement adds no entry to the mapping.
C13_AbsentHandleRaises ==
    (lastOp.op \in {"prepareStatement", "rawExec"} /\ old.db = NULL)
    => /\ lastOp.err # NoError
       /\ stmts = old.stmts

\* The type each typed getter requires, and what it throws otherwise.
GetterOps == {"getString", "getInt", "getInt64", "getDouble", "getBlob"}

RequiredType(op) ==
    CASE op = "getString" -> SQLITE_TEXT
      [] op \in {"getInt", "getInt64"} -> SQLITE_INTEGER
      [] op = "getDouble" -> SQLITE_FLOAT
      [] op = "getBlob" -> SQLITE_BLOB

TypeMismatch(op) ==
    CASE op = "getString" -> NotString
      [] op \in {"getInt", "getInt64"} -> NotInt
      [] op = "getDouble" -> NotFloat
      [] op = "getBlob" -> NotBlob

C15_GetTypeClosedEnumeration ==
    lastOp.op = "getType"
    => /\ lastOp.ret \in 0..5
       /\ lastOp.idx \in 1..5 => lastOp.ret = lastOp.idx
       /\ lastOp.idx \notin 1..5 => lastOp.ret = 0

\* The code just above SQLITE_NULL is turned into 0.
C15_Witness ==
    /\ lastOp.op = "getType"
    /\ lastOp.idx = SQLITE_NULL + 1
    /\ lastOp.ret = 0

\* The operations that resolve an alias among the input aliases and among
\* the output aliases.
InputOps == {"bind", "bindNull"}
OutputOps == GetterOps \cup {"getType", "getSize", "getColumn",
                             "databaseName", "tableName", "columnName"}

\* C16: an alias overload called with an alias that is not registered in
\* its map raises std::out_of_range and leaves the bindings, the cursor,
\* the store and both alias maps as they were.
C16_UnknownAliasRaises ==
    ( /\ lastOp.arg # ""
      /\ \/ /\ lastOp.op \in InputOps
            /\ lastOp.arg \notin DOMAIN old.stmts[lastOp.key].inputAlias
         \/ /\ lastOp.op \in OutputOps
            /\ lastOp.arg \notin DOMAIN old.stmts[lastOp.key].outputAlias )
    => /\ lastOp.err = OutOfRange
       /\ openStmt = old.openStmt
       /\ openDb = old.openDb
       /\ stmts = old.stmts
       /\ life = "alive"

\* bind by an alias the SELECT statement does not know, while the statement
\* stands on a row.
C16_Witness ==
    /\ lastOp.op = "bind"
    /\ lastOp.arg = "x"
    /\ lastOp.err = OutOfRange
    /\ openStmt[stmts[lastOp.key].stmt].state = "row"

\* C17: a call of an alias overload with an alias registered for index i is
\* the call by index i from the same state: same return value or exception,
\* same state afterwards.
C17_AliasSameAsPositional ==
    [][ \A k \in DOMAIN stmts, a \in Aliases :
          /\ a \in DOMAIN stmts[k].inputAlias
             => LET i == stmts[k].inputAlias[a]
                IN /\ \A v \in BindValues : bindAlias(k, a, v) => bindAt(k, i, v, a)
                   /\ bindNullAlias(k, a) => bindNullAt(k, i, a)
          /\ a \in DOMAIN stmts[k].outputAlias
             => LET i == stmts[k].outputAlias[a]
                IN /\ getTypeAlias(k, a) => getTypeAt(k, i, a)
                   /\ getSizeAlias(k, a) => getSizeAt(k, i, a)
                   /\ getStringAlias(k, a)
                        => Getter("getString", SQLITE_TEXT, NotString, k, i, a)
                   /\ getIntAlias(k, a)
                        => Getter("getInt", SQLITE_INTEGER, NotInt, k, i, a)
                   /\ getInt64Alias(k, a)
                        => Getter("getInt64", SQLITE_INTEGER, NotInt, k, i, a)
                   /\ getDoubleAlias(k, a)
                        => Getter("getDouble", SQLITE_FLOAT, NotFloat, k, i, a)
                   /\ getBlobAlias(k, a)
                        => Getter("getBlob", SQLITE_BLOB, NotBlob, k, i, a)
                   /\ getColumnAlias(k, a) => getColumnAt(k, i, a)
                   /\ \A ub \in NullString :
                        /\ databaseNameAlias(k, a, ub)
                             => Metadata("databaseName", k, i, a, ub)
                        /\ tableNameAlias(k, a, ub)
                             => Metadata("tableName", k, i, a, ub)
                        /\ columnNameAlias(k, a, ub)
                             => Metadata("columnName", k, i, a, ub)
      ]_vars

\* getInt by an alias registered for column 3, which the SELECT does not
\* have, while it stands on a row: the mismatch getInt(3) raises.
C17_Witness ==
    /\ lastOp.op = "getInt"
    /\ lastOp.arg = "x"
    /\ lastOp.idx = 3
    /\ lastOp.err = NotInt
    /\ old.openStmt[old.stmts[lastOp.key].stmt].state = "row"

\* C18: setInputAlias and setOutputAlias return normally and leave the
\* alias resolving to the index given in the call.
C18_SetAliasRegistersIndex ==
    /\ lastOp.op = "setInputAlias"
         => /\ lastOp.err = NoError
            /\ at(stmts[lastOp.key].inputAlias, lastOp.arg)
                 = [found |-> TRUE, value |-> lastOp.idx]
    /\ lastOp.op = "setOutputAlias"
         => /\ lastOp.err = NoError
            /\ at(stmts[lastOp.key].outputAlias, lastOp.arg)
                 = [found |-> TRUE, value |-> lastOp.idx]

\* C19: a step of a statement that has not run to completion, standing
\* after row p of the n rows its execution yields (p = 0 when rewound; n = 0
\* for the INSERT), returns true and stands on row p + 1 when p < n, and
\* returns false when p = n.
C19_StepYieldsRowsInOrder ==
    ( /\ lastOp.op = "step"
      /\ old.stmts[lastOp.key].stmt # NULL
      /\ old.openStmt[old.stmts[lastOp.key].stmt].state # "done" )
    => LET s == old.stmts[lastOp.key].stmt
           before == old.openStmt[s]
           p == IF before.state = "row" THEN before.pos ELSE 0
           rows == old.openDb[before.db].rows
           n == IF before.sql = SelectSql THEN Len(rows) ELSE 0
       IN IF p < n
          THEN /\ lastOp.ret = 1
               /\ CurrentRow(openDb, openStmt, s) = <<IntV(p + 1)>> \o rows[p + 1]
          ELSE /\ lastOp.ret = 0
               /\ CurrentRow(openDb, openStmt, s) = <<>>

\* The third step of a SELECT over two rows returns false.
C19_Witness ==
    /\ lastOp.op = "step"
    /\ lastOp.ret = 0
    /\ old.stmts[lastOp.key].stmt # NULL
    /\ old.openStmt[old.stmts[lastOp.key].stmt].state = "row"
    /\ old.openStmt[old.stmts[lastOp.key].stmt].pos = 2

C21_ResetRewindsKeepsBindings ==
    (lastOp.op = "reset" /\ old.stmts[lastOp.key].stmt # NULL)
    => LET s == old.stmts[lastOp.key].stmt
           rows == openDb[openStmt[s].db].rows
           next == sqlite3_step(openDb, openStmt, s, FALSE)
       IN /\ openStmt[s].bound = old.openStmt[s].bound
          /\ openDb = old.openDb
          /\ CurrentRow(openDb, openStmt, s) = <<>>
          /\ IF openStmt[s].sql = SelectSql /\ Len(rows) > 0
             THEN /\ next.rc = SQLITE_ROW
                  /\ CurrentRow(next.conns, next.st, s) = <<IntV(1)>> \o rows[1]
             ELSE next.rc = SQLITE_DONE

\* reset() of the SELECT standing on the second row.
C21_Witness ==
    /\ lastOp.op = "reset"
    /\ old.stmts[lastOp.key].stmt # NULL
    /\ old.openStmt[old.stmts[lastOp.key].stmt].state = "row"
    /\ old.openStmt[old.stmts[lastOp.key].stmt].pos = 2

\* C22: clear() in any state of the statement sets every parameter slot to
\* NULL and leaves the cursor, the current row, the store and the alias maps
\* as they were.
C22_ClearNullsBindingsOnly ==
    (lastOp.op = "clear" /\ old.stmts[lastOp.key].stmt # NULL)
    => LET s == old.stmts[lastOp.key].stmt
       IN /\ \A n \in DOMAIN openStmt[s].bound : openStmt[s].bound[n] = NullV
          /\ DOMAIN openStmt[s].bound = DOMAIN old.openStmt[s].bound
          /\ openStmt[s].state = old.openStmt[s].state
          /\ openStmt[s].pos = old.openStmt[s].pos
          /\ CurrentRow(openDb, openStmt, s)
               = CurrentRow(old.openDb, old.openStmt, s)
          /\ openDb = old.openDb
          /\ stmts = old.stmts

\* clear() of the INSERT that has run with a value bound and was not reset.
C22_Witness ==
    /\ lastOp.op = "clear"
    /\ old.stmts[lastOp.key].stmt # NULL
    /\ old.openStmt[old.stmts[lastOp.key].stmt].state = "done"
    /\ old.openStmt[old.stmts[lastOp.key].stmt].sql = InsertSql
    /\ old.openStmt[old.stmts[lastOp.key].stmt].bound[1] # NullV

\* C23: bind and bindNull at a position the statement has write the value
\* into that slot in every state of the statement, and leave the other
\* slots, the cursor and the store as they were.
C23_BindWritesSlot ==
    ( /\ lastOp.op \in {"bind", "bindNull"}
      /\ old.stmts[lastOp.key].stmt # NULL
      /\ lastOp.idx \in DOMAIN old.openStmt[old.stmts[lastOp.key].stmt].bound )
    => LET s == old.stmts[lastOp.key].stmt
       IN /\ openStmt[s].bound
               = [old.openStmt[s].bound EXCEPT ![lastOp.idx] = lastOp.val]
          /\ openStmt[s].state = old.openStmt[s].state
          /\ openStmt[s].pos = old.openStmt[s].pos
          /\ openDb = old.openDb

\* C28: bind and bindNull at a position the statement does not have raise
\* an error and leave every slot as it was.
C28_BindOutOfRangeRaises ==
    ( /\ lastOp.op \in {"bind", "bindNull"}
      /\ old.stmts[lastOp.key].stmt # NULL
      /\ lastOp.idx \notin DOMAIN old.openStmt[old.stmts[lastOp.key].stmt].bound )
    => /\ lastOp.err # NoError
       /\ openStmt = old.openStmt

\* C29: step() raises an error whenever the engine reports anything but a
\* row or completion.
C29_StepRaisesOnFailure ==
    (lastOp.op = "step" /\ lastOp.rc \notin {SQLITE_ROW, SQLITE_DONE})
    => lastOp.err # NoError

\* C27: every handle the engine has given out and not released is held by
\* the wrapper (the database handle by db, a statement handle by a
\* StatementHandler of stmts, prepared on the handle in db), so that the
\* destruction of the SQLiteHandler leaves no handle of the engine open.
C27_HandlesReleasedOnce ==
    /\ DOMAIN openDb \subseteq {db} \ {NULL}
    /\ DOMAIN openStmt \subseteq {o.stmt : o \in Objects(stmts)}
    /\ life = "destroyed" => (DOMAIN openDb = {} /\ DOMAIN openStmt = {})

\* C26: a load(path) that returns leaves in the live handle the rows of the
\* file at path and leaves every file as it was; a save(path) that returns
\* leaves in the file at path the rows of the live handle and leaves the
\* live handle and every other file as they were.
C26_LoadSaveCopyWholeStore ==
    /\ (lastOp.op = "load" /\ lastOp.err = NoError /\ old.db # NULL)
       => /\ openDb[db].rows = old.disk[lastOp.arg]
          /\ disk = old.disk
    /\ (lastOp.op = "save" /\ lastOp.err = NoError /\ old.db # NULL)
       => /\ disk = [old.disk EXCEPT ![lastOp.arg] = old.openDb[old.db].rows]
          /\ openDb = old.openDb

\* The copy is the one named, and whole, when every engine call of load or
\* save succeeded.
BackupCopiesWhenEngineSucceeds ==
    /\ (lastOp.op = "load" /\ lastOp.rc = SQLITE_OK /\ old.db # NULL)
       => /\ openDb[db].rows = old.disk[lastOp.arg]
          /\ disk = old.disk
    /\ (lastOp.op = "save" /\ lastOp.rc = SQLITE_OK /\ old.db # NULL)
       => /\ disk = [old.disk EXCEPT ![lastOp.arg] = old.openDb[old.db].rows]
          /\ openDb = old.openDb

\* The copy is asked for with the two sides holding different rows.
BackupCopiesDifferentRows ==
    /\ lastOp.op \in {"load", "save"}
    /\ lastOp.rc = SQLITE_OK
    /\ old.db # NULL
    /\ old.openDb[old.db].rows # old.disk[lastOp.arg]

\* C30: load and save raise an error whenever the file cannot be opened, the
\* backup cannot be initialised or the backup step does not complete.
C30_LoadSaveRaiseOnFailure ==
    (lastOp.op \in {"load", "save"} /\ lastOp.rc # SQLITE_OK)
    => lastOp.err # NoError

\* C25: on the store with table t(a TEXT, b REAL): a step of the INSERT
\* statement bound with ("x", 1.5) adds the row ("x", 1.5); rawExec of a
\* single-row insert adds its row and returns 1, and changes() after it
\* returns 1; on the two rows so made, the steps of SELECT a,b FROM t return
\* true on ("x", 1.5), true on the rawExec'd row and then false, and the
\* typed getters return the columns of the row stood on.
C25_InsertExecSelectScenario ==
    LET rows == openDb[db].rows
        k1 == stmts["k1"].stmt
        k2 == stmts["k2"].stmt
        was == old.openStmt
    IN /\ (lastOp.op = "step" /\ lastOp.key = "k1" /\ lastOp.rc = SQLITE_DONE
           /\ was[k1].bound = BoundRow)
          => (lastOp.ret = 0 /\ rows = Append(old.openDb[db].rows, BoundRow))
       /\ lastOp.op = "rawExec"
          => (lastOp.err = NoError /\ lastOp.ret = 1
              /\ rows = Append(old.openDb[db].rows, RawRow))
       /\ lastOp.op = "changes"
          => (lastOp.err = NoError
              /\ lastOp.ret = IF openDb[db].total = 0 THEN 0 ELSE 1)
       /\ (lastOp.op = "step" /\ lastOp.key = "k2" /\ rows = <<BoundRow, RawRow>>
           /\ was[k2].state # "done")
          => LET next == IF was[k2].state = "row" THEN was[k2].pos + 1 ELSE 1
             IN IF next <= 2
                THEN /\ lastOp.ret = 1
                     /\ CurrentRow(openDb, openStmt, k2) = rows[next]
                ELSE /\ lastOp.ret = 0
                     /\ CurrentRow(openDb, openStmt, k2) = <<>>
       /\ (lastOp.op = "getString" /\ openStmt[k2].state = "row"
           /\ rows = <<BoundRow, RawRow>>)
          => (lastOp.err = NoError /\ lastOp.val = rows[openStmt[k2].pos][1])
       /\ (lastOp.op = "getDouble" /\ openStmt[k2].state = "row"
           /\ rows = <<BoundRow, RawRow>>)
          => (lastOp.err = NoError /\ lastOp.val = rows[openStmt[k2].pos][2])

\* The end of the scenario: the third step of the SELECT returned false,
\* after the rows ("x", 1.5) and ('r', 2.5) were made in that order by the
\* INSERT statement (since reset) and rawExec.
C25_Witness ==
    /\ lastOp.op = "step" /\ lastOp.key = "k2" /\ lastOp.ret = 0
    /\ old.openStmt[stmts["k2"].stmt].state = "row"
    /\ old.openStmt[stmts["k2"].stmt].pos = 2
    /\ openDb[db].rows = <<BoundRow, RawRow>>
    /\ openDb[db].changes = 1
    /\ "k1" \in DOMAIN stmts
    /\ openStmt[stmts["k1"].stmt].state = "ready"
    /\ openStmt[stmts["k1"].stmt].bound = BoundRow

\* C24: after a value v of type T was bound to the parameter of an INSERT
\* into a column declared T, a step of the statement adds a row whose column,
\* read with the getter for T, is equal to v (every text, the empty one and
\* one with a zero byte included), and for a blob getSize is the length of v.
C24_RoundTrip ==
    LET k1 == stmts["k1"].stmt
        T == ColumnType("k1")
        v == lastOp.val
        rows == sqlite3_step(openDb, openStmt, k1, TRUE).conns[db].rows
        w == rows[Len(rows)][1]
    IN (lastOp.op = "bind" /\ lastOp.rc = SQLITE_OK /\ v.t = TypeCode(T))
       => /\ getTypeCode(w.t) = TypeCode(T)
          /\ Returned(GetterFor(T), w) = v
          /\ T = "BLOB" => Len(w.s) = Len(v.s)

\* The round trip of every value but a text with a zero byte in it.
RoundTripOfCStrings ==
    LET k1 == stmts["k1"].stmt
        T == ColumnType("k1")
        v == lastOp.val
        rows == sqlite3_step(openDb, openStmt, k1, TRUE).conns[db].rows
        w == rows[Len(rows)][1]
    IN (lastOp.op = "bind" /\ lastOp.rc = SQLITE_OK /\ v.t = TypeCode(T)
        /\ (T = "TEXT" => strlen(v.s) = Len(v.s)))
       => /\ getTypeCode(w.t) = TypeCode(T)
          /\ Returned(GetterFor(T), w) = v
          /\ T = "BLOB" => Len(w.s) = Len(v.s)

\* C31: the error raised when the engine rejects the open of createDatabase,
\* openDatabase, forceOpenDatabase or the constructor carries the message of
\* the handle whose open failed ("unable to open database file"), not the
\* message of the handle held before the call nor that of an absent handle.
C31_OpenErrorCarriesOwnMessage ==
    (lastOp.op \in OpenOps /\ lastOp.rc # SQLITE_OK) => lastOp.err = CantOpen

\* C32: getColumn(col), for every col and every state of the statement,
\* returns without raising a view that holds the statement's native handle
\* and col, and changes no binding, cursor, row or statement; a conversion of
\* a view returns what the row the statement stands on at the time of the
\* conversion holds in that column, converted.
C32_GetColumnIsUnvalidatedView ==
    /\ lastOp.op = "getColumn"
       => /\ lastOp.err = NoError
          /\ ValueHandler(lastOp.ret, lastOp.idx)
               = ValueHandler(stmts[lastOp.key].stmt, lastOp.idx)
          /\ openStmt = old.openStmt
          /\ openDb = old.openDb
          /\ stmts = old.stmts
    /\ lastOp.op \in ConversionOps
       => LET s == lastOp.ret
              row == IF old.openStmt[s].state = "row"
                     THEN <<IntV(old.openStmt[s].pos)>>
                          \o old.openDb[old.openStmt[s].db].rows[old.openStmt[s].pos]
                     ELSE <<>>
              held == IF lastOp.idx + 1 \notin DOMAIN row THEN NullV
                      ELSE IF lastOp.idx \in old.openStmt[s].text
                              /\ row[lastOp.idx + 1].t = SQLITE_BLOB
                      THEN TextV(row[lastOp.idx + 1].s)
                      ELSE row[lastOp.idx + 1]
          IN /\ lastOp.err = NoError
             /\ old.openStmt[s].sql = SelectSql => lastOp.val = Conversion(lastOp.op, held)
             /\ openStmt[s].pos = old.openStmt[s].pos
             /\ openStmt[s].state = old.openStmt[s].state

\* A view of column 0 is converted while its statement stands on the second
\* row, and yields that row's value.
C32_Witness ==
    /\ lastOp.op = "operator sqlite3_int64"
    /\ lastOp.idx = 0
    /\ lastOp.ret = stmts["k2"].stmt
    /\ openStmt[lastOp.ret].state = "row"
    /\ openStmt[lastOp.ret].pos = 2
    /\ lastOp.val = IntV(2)

\* C33: on a column that holds an INTEGER, getInt and getInt64 both return
\* the integer held, whether or not it is in the range of a signed 32-bit
\* integer.
C33_GetIntReturnsStoredInteger ==
    LET held == sqlite3_column_value(openDb, openStmt, stmts["k2"].stmt, lastOp.idx)
    IN (lastOp.op \in {"getInt", "getInt64"} /\ held.t = SQLITE_INTEGER)
       => (lastOp.err = NoError /\ lastOp.val = held)

\* The alias maps belong to one statement and one direction: setInputAlias
\* changes the input map of its statement only and setOutputAlias the output
\* map of its statement only; an alias overload that returned found its
\* alias in the map of its direction of its own statement; and a statement
\* prepared under a key that held none has both maps empty.
AliasMapsPerStatementAndDirection ==
    /\ lastOp.op \in {"setInputAlias", "setOutputAlias"}
       => /\ \A k \in DOMAIN stmts \ {lastOp.key} : stmts[k] = old.stmts[k]
          /\ DOMAIN stmts = DOMAIN old.stmts
          /\ lastOp.op = "setInputAlias"
             => stmts[lastOp.key].outputAlias = old.stmts[lastOp.key].outputAlias
          /\ lastOp.op = "setOutputAlias"
             => stmts[lastOp.key].inputAlias = old.stmts[lastOp.key].inputAlias
    /\ (lastOp.op \in InputOps /\ lastOp.arg # "" /\ lastOp.err = NoError)
       => lastOp.arg \in DOMAIN old.stmts[lastOp.key].inputAlias
    /\ (lastOp.op \in OutputOps /\ lastOp.arg # "" /\ lastOp.err = NoError)
       => lastOp.arg \in DOMAIN old.stmts[lastOp.key].outputAlias
    /\ (lastOp.op = "prepareStatement" /\ lastOp.key \notin DOMAIN old.stmts)
       => /\ stmts[lastOp.key].inputAlias = EmptyMap
          /\ stmts[lastOp.key].outputAlias = EmptyMap

\* C34: the alias maps belong to one statement and one direction, and the
\* statement that prepareStatement leaves under a key, whether the key held
\* none, held one that was destroyed before, or held one to be replaced,
\* has both maps empty.
C34_AliasMapsPerStatement ==
    /\ AliasMapsPerStatementAndDirection
    /\ (lastOp.op = "prepareStatement" /\ lastOp.err = NoError)
       => /\ stmts[lastOp.key].inputAlias = EmptyMap
          /\ stmts[lastOp.key].outputAlias = EmptyMap

\* A query operation that returns or throws leaves the statement mapping
\* with its alias maps, the bindings, cursors and rows of the statements, and
\* the handle as they were; after a type mismatch was thrown the column
\* still holds the value the getter of its type returns.
QueriesChangeNothing ==
    lastOp.op \in QueryOps
    => /\ stmts = old.stmts
       /\ openStmt = old.openStmt
       /\ db = old.db
       /\ openDb = old.openDb
       /\ (lastOp.op \in GetterOps /\ lastOp.err = TypeMismatch(lastOp.op))
          => LET held == sqlite3_column_value(openDb, openStmt,
                                              stmts[lastOp.key].stmt, lastOp.idx)
             IN /\ held.t # RequiredType(lastOp.op)
                /\ held = sqlite3_column_value(old.openDb, old.openStmt,
                                               old.stmts[lastOp.key].stmt, lastOp.idx)

\* C35: every query operation of a statement or of the connection, in every
\* state, returns a value or raises, and leaves the statement mapping, the
\* bindings, cursors and alias maps and the handle's being open or absent
\* unchanged.
C35_QueriesAreSideEffectFree ==
    /\ QueriesChangeNothing
    /\ lastOp.op \in QueryOps => life = "alive"

\* load and save of a path that has no file, when every engine call of the
\* copy succeeded: the file is there afterwards; after load it is empty and
\* so is the live store; after save it holds the rows of the live store,
\* which is as it was.
MissingFileCopiedWhenEngineSucceeds ==
    (lastOp.op \in {"load", "save"} /\ lastOp.arg \notin old.files
       /\ old.db # NULL /\ lastOp.rc = SQLITE_OK)
    => /\ lastOp.err = NoError
       /\ lastOp.arg \in files
       /\ lastOp.op = "load" => (disk[lastOp.arg] = <<>> /\ openDb[db].rows = <<>>)
       /\ lastOp.op = "save" => /\ disk[lastOp.arg] = old.openDb[old.db].rows
                                /\ openDb = old.openDb

\* A load of a path that has no file is asked of a store that holds rows.
MissingFileLoadedOverRows ==
    /\ lastOp.op = "load"
    /\ lastOp.arg \notin old.files
    /\ old.db # NULL
    /\ lastOp.rc = SQLITE_OK
    /\ old.openDb[old.db].rows # <<>>

\* C36: load(path) of a path that has no file, where the file can be made,
\* raises no error, makes an empty file at path and leaves the live store
\* empty; save(path) of such a path makes the file and leaves the live store
\* as it was.
C36_LoadSaveOfMissingFile ==
    (lastOp.op \in {"load", "save"} /\ lastOp.arg \notin old.files
       /\ old.db # NULL /\ lastOp.rc # SQLITE_CANTOPEN)
    => /\ lastOp.err = NoError
       /\ lastOp.arg \in files
       /\ lastOp.op = "load" => (disk[lastOp.arg] = <<>> /\ openDb[db].rows = <<>>)
       /\ lastOp.op = "save" => openDb = old.openDb

====
